---------------------------- MODULE Spec2Model ----------------------------
(***************************************************************************)
(* FolderFusionX: the tree-acquisition engine of src/utils/fileSystem.ts.  *)
(*                                                                         *)
(* JavaScript runs one macrotask at a time and drains every promise        *)
(* continuation before the next one, so each action below is one macrotask *)
(* (a remote call settling, a timer firing, an abort event) together with  *)
(* all the continuations it triggers, up to the next pending await.        *)
(***************************************************************************)
EXTENDS Integers, Sequences, FiniteSets, TLC

(***************************************************************************)
(* Program constants                                                       *)
(***************************************************************************)
GITHUB_TIMEOUT == 8000
MAX_RETRIES == 2
RETRY_DELAY == 1000
BATCH_SIZE == 10
CACHE_TTL == 300000
TEXT_SIZE_LIMIT == 100000
BATCH_PAUSE == 100
DEFAULT_MAX_DEPTH == 5
OVERALL_TIMEOUT == 60000
LARGE_REPO_MB == 100
REFUSED_REPO_MB == 500

(***************************************************************************)
(* Bounds of the model                                                     *)
(***************************************************************************)
\* builds run one after the other against the shared cache
MaxBuilds == 2
\* failing or unanswered remote calls in a run
MaxFaults == 3
\* clock ticks of TickMs each
MaxTicks == 2

TickMs == CACHE_TTL

Null == "null"

(***************************************************************************)
(* Errors.  The code discriminates errors by name, by status and by        *)
(* substrings of the message; an error is the record of those three.       *)
(***************************************************************************)
MsgCancelled == "Operation cancelled by user"
MsgCancelledCount == "Operation cancelled"
MsgOpTimedOut == "Operation timed out after 8000ms"
MsgGitHubTimedOut == "GitHub request timed out. Repository might be too large or GitHub API is slow."
MsgRetryRateLimit == "GitHub API rate limit exceeded. Please try again later or use a token with higher rate limits."
MsgDirTimedOut == "Request timed out. Please try again or use a more specific path."
MsgBuildTimedOut == "Request timed out. Please try a more specific path or reduce the repository size."
MsgQuotaZero == "GitHub API rate limit exceeded. Reset at <reset>"
MsgRepoNotFound == "Repository not found or private. Please check the URL or your access permissions."
MsgTooLarge == "Repository is too large (over 500MB). Please specify a subfolder path instead."
MsgBuild403 == "GitHub API rate limit exceeded. Please add a personal access token in settings."
MsgBuild404 == "Repository or path not found. Please check the URL."
\* messages of the failures the remote source itself raises
MsgNetwork == "Network Error"
MsgHttp404 == "Not Found"
MsgHttp403 == "Forbidden"
MsgHttpRateLimit == "API rate limit exceeded for this address"
MsgAbort == "The user aborted a request."

Err(name, status, message) == [name |-> name, status |-> status, message |-> message]
NewError(message) == Err("Error", 0, message)

\* error.message.includes('timed out')
IncludesTimedOut(m) == m \in {MsgOpTimedOut, MsgGitHubTimedOut, MsgDirTimedOut, MsgBuildTimedOut}
\* error.message.includes('rate limit')
IncludesRateLimit(m) == m \in {MsgHttpRateLimit, MsgRetryRateLimit, MsgQuotaZero, MsgBuild403}

\* what a remote call can answer besides its data
ErrTransient == Err("HttpError", 0, MsgNetwork)
ErrNotFound == Err("HttpError", 404, MsgHttp404)
ErrForbidden == Err("HttpError", 403, MsgHttp403)
ErrRateLimit == Err("HttpError", 403, MsgHttpRateLimit)
ErrAbort == Err("AbortError", 0, MsgAbort)
CallFailures == {ErrTransient, ErrNotFound, ErrForbidden, ErrRateLimit}

(***************************************************************************)
(* createTimeoutWithAbort: what the timeout promise rejects with.          *)
(***************************************************************************)
TimeoutRejection == NewError(MsgOpTimedOut)
AbortRejection == NewError(MsgCancelled)

(***************************************************************************)
(* withRetry.  WithRetryEnter is the synchronous part of the try block:    *)
(* TRUE when fn() is invoked.  WithRetryCatch is the catch block for an    *)
(* attempt that failed with `error` when `retries` are left.               *)
(***************************************************************************)
NoAbortCheckOnEnter(sigAborted) == TRUE
WithRetryEnter(sigAborted) == ~sigAborted

ConstantBackoff(retries) == RETRY_DELAY
BackoffDelay(retries) == RETRY_DELAY * (2 ^ (MAX_RETRIES - retries))
OnRetryArg(retries) == MAX_RETRIES - retries + 1

GiveUpAfterOneRetry(error, retries, sigAborted) ==
    IF error.name = "AbortError" \/ sigAborted
      THEN [kind |-> "throw", err |-> NewError(MsgCancelled)]
    ELSE IF IncludesTimedOut(error.message)
      THEN [kind |-> "throw", err |-> NewError(MsgGitHubTimedOut)]
    ELSE IF error.status = 403 /\ IncludesRateLimit(error.message)
      THEN [kind |-> "throw", err |-> NewError(MsgRetryRateLimit)]
    ELSE IF retries <= 1
      THEN [kind |-> "throw", err |-> error]
    ELSE [kind |-> "retry", err |-> error]
ExhaustAsTimeout(error, retries, sigAborted) ==
    IF error.name = "AbortError" \/ sigAborted
      THEN [kind |-> "throw", err |-> NewError(MsgCancelled)]
    ELSE IF IncludesTimedOut(error.message)
      THEN [kind |-> "throw", err |-> NewError(MsgGitHubTimedOut)]
    ELSE IF error.status = 403 /\ IncludesRateLimit(error.message)
      THEN [kind |-> "throw", err |-> NewError(MsgRetryRateLimit)]
    ELSE IF retries = 0
      THEN [kind |-> "throw", err |-> NewError(MsgGitHubTimedOut)]
    ELSE [kind |-> "retry", err |-> error]
WithRetryCatch(error, retries, sigAborted) ==
    IF error.name = "AbortError" \/ sigAborted
      THEN [kind |-> "throw", err |-> NewError(MsgCancelled)]
    ELSE IF IncludesTimedOut(error.message)
      THEN [kind |-> "throw", err |-> NewError(MsgGitHubTimedOut)]
    ELSE IF error.status = 403 /\ IncludesRateLimit(error.message)
      THEN [kind |-> "throw", err |-> NewError(MsgRetryRateLimit)]
    ELSE IF retries = 0
      THEN [kind |-> "throw", err |-> error]
    ELSE [kind |-> "retry", err |-> error]

(***************************************************************************)
(* One withRetry call on its own.  wrScript is what the wrapped operation  *)
(* does on its 1st, 2nd and 3rd invocation: answer, fail or never answer.  *)
(***************************************************************************)
VARIABLES wrScript, wrState, wrRetries, wrCalls, wrAborted, wrResult, wrOnRetry, wrWaited

wrVars == <<wrScript, wrState, wrRetries, wrCalls, wrAborted, wrResult, wrOnRetry, wrWaited>>

\* what one invocation of the wrapped operation does
Answers == [kind |-> "ok"]
Hangs == [kind |-> "hang"]
Fails(e) == [kind |-> "fail", err |-> e]
AttemptOutcomes == {Answers, Hangs} \cup {Fails(e) : e \in CallFailures}
MaxAttempts == MAX_RETRIES + 1

\* the value the k-th invocation resolves with
AttemptValue(k) == [attempt |-> k]

WrIdle ==
    /\ wrScript = <<>>
    /\ wrState = "idle"
    /\ wrRetries = 0
    /\ wrCalls = 0
    /\ wrAborted = FALSE
    /\ wrResult = Null
    /\ wrOnRetry = <<>>
    /\ wrWaited = <<>>

\* withRetry(fn, retries, signal, onRetry) entered with `retries` left
WrEnter(retries) ==
    IF WithRetryEnter(wrAborted)
      THEN /\ wrState' = "inflight"
           /\ wrCalls' = wrCalls + 1
           /\ wrRetries' = retries
           /\ wrResult' = wrResult
      ELSE \* the throw inside the try block lands in the catch block
           LET c == WithRetryCatch(NewError(MsgCancelled), retries, wrAborted) IN
           /\ wrState' = "rejected"
           /\ wrResult' = c.err
           /\ wrRetries' = retries
           /\ wrCalls' = wrCalls

\* the catch block for the attempt in flight
WrFail(error) ==
    LET c == WithRetryCatch(error, wrRetries, wrAborted) IN
    IF c.kind = "throw"
      THEN /\ wrState' = "rejected"
           /\ wrResult' = c.err
           /\ UNCHANGED <<wrOnRetry, wrWaited>>
      ELSE /\ wrState' = "backoff"
           /\ wrOnRetry' = Append(wrOnRetry, OnRetryArg(wrRetries))
           /\ wrResult' = wrResult
           /\ wrWaited' = wrWaited

WrStart ==
    /\ wrState = "idle"
    /\ WrEnter(MAX_RETRIES)
    /\ UNCHANGED <<wrScript, wrAborted, wrOnRetry, wrWaited>>

\* fn() settles before the timeout promise
WrAnswer ==
    /\ wrState = "inflight"
    /\ wrScript[wrCalls].kind # "hang"
    /\ IF wrScript[wrCalls].kind = "ok"
         THEN /\ wrState' = "resolved"
              /\ wrResult' = AttemptValue(wrCalls)
              /\ UNCHANGED <<wrOnRetry, wrWaited>>
         ELSE WrFail(wrScript[wrCalls].err)
    /\ UNCHANGED <<wrScript, wrRetries, wrCalls, wrAborted>>

\* the GITHUB_TIMEOUT timer fires before fn() settles
WrTimeout ==
    /\ wrState = "inflight"
    /\ wrScript[wrCalls].kind = "hang"
    /\ WrFail(TimeoutRejection)
    /\ UNCHANGED <<wrScript, wrRetries, wrCalls, wrAborted>>

\* delay(backoffDelay) elapses: withRetry(fn, retries - 1, signal, onRetry)
WrBackoffElapsed ==
    /\ wrState = "backoff"
    /\ wrWaited' = Append(wrWaited, BackoffDelay(wrRetries))
    /\ WrEnter(wrRetries - 1)
    /\ UNCHANGED <<wrScript, wrAborted, wrOnRetry>>

\* the signal fires: the abort listener rejects the timeout promise
WrAbort ==
    /\ wrState \in {"inflight", "backoff"}
    /\ ~wrAborted
    /\ wrAborted' = TRUE
    /\ IF wrState = "inflight"
         THEN LET c == WithRetryCatch(AbortRejection, wrRetries, TRUE) IN
              /\ wrState' = "rejected"
              /\ wrResult' = c.err
         ELSE UNCHANGED <<wrState, wrResult>>
    /\ UNCHANGED <<wrScript, wrRetries, wrCalls, wrOnRetry, wrWaited>>

WrNext ==
    \/ WrStart
    \/ WrAnswer
    \/ WrTimeout
    \/ WrBackoffElapsed
    \/ WrAbort


(***************************************************************************)
(* The remote source: one repository, a nested directory structure.        *)
(* A directory-listing call answers Listing(path), a file-content call     *)
(* answers ContentResponse(path).                                          *)
(***************************************************************************)
\* which source the reference names: "small", "wide", "long" or "mixed"
VARIABLE source

Root == ""
Repo == "repo"
Entry(name, path, type, size) == [name |-> name, path |-> path, type |-> type, size |-> size]

\* the small repository: files, nested directories, a directory to exclude
SmallListing(path) ==
    CASE path = "" ->
           <<Entry("src", "src", "dir", 0), Entry("README.MD", "README.MD", "file", 12)>>
      [] path = "src" ->
           <<Entry("node_modules", "src/node_modules", "dir", 0),
             Entry("big.md", "src/big.md", "file", TEXT_SIZE_LIMIT)>>
      [] path = "src/node_modules" ->
           <<Entry("x.bin", "src/node_modules/x.bin", "file", 5)>>
SmallDirPaths == {"", "src", "src/node_modules"}

\* the wide repository: two directories holding WideLeft and WideRight empty
\* directories; the listing of the first spans more than one batch
WideLeft == 11
WideRight == 1
WideNames == <<"s01", "s02", "s03", "s04", "s05", "s06", "s07", "s08", "s09", "s10", "s11", "s12">>
WideSub(d, k) == Entry(WideNames[k], d \o "/" \o WideNames[k], "dir", 0)
WideListing(path) ==
    IF path = "" THEN <<Entry("d1", "d1", "dir", 0), Entry("d2", "d2", "dir", 0)>>
    ELSE IF path = "d1" THEN [k \in 1..WideLeft |-> WideSub("d1", k)]
    ELSE IF path = "d2" THEN [k \in 1..WideRight |-> WideSub("d2", k)]
    ELSE <<>>
WideDirPaths ==
    {"", "d1", "d2"} \cup {WideSub("d1", k).path : k \in 1..WideLeft}
                     \cup {WideSub("d2", k).path : k \in 1..WideRight}

\* the long directory: one file, LongSkipped directories and then the other
\* files; its entries span more than one batch of processDirectory
LongSkipped == 18
LongFiles == 3
LongDirNames ==
    <<"x01", "x02", "x03", "x04", "x05", "x06", "x07", "x08", "x09", "x10",
      "x11", "x12", "x13", "x14", "x15", "x16", "x17", "x18", "x19">>
LongFileNames == <<"a.md", "b.md", "c.md", "d.md">>
LongFile(k) == Entry(LongFileNames[k], LongFileNames[k], "file", k)
LongListing(path) ==
    IF path = ""
      THEN <<LongFile(1)>>
           \o [k \in 1..LongSkipped |-> Entry(LongDirNames[k], LongDirNames[k], "dir", 0)]
           \o [k \in 1..(LongFiles - 1) |-> LongFile(k + 1)]
      ELSE <<>>
LongDirPaths == {""} \cup {LongDirNames[k] : k \in 1..LongSkipped}
\* the exclusion list that names every directory of the long directory
LongExcluded == {LongDirNames[k] : k \in 1..LongSkipped}

\* the mixed repository: files that bear a name of the exclusion list, an
\* entry that is neither a file nor a directory, a file whose name has no
\* dot and reads like an extension, and a text file at the size limit
MixedListing(path) ==
    IF path = ""
      THEN <<Entry("lib", "lib", "dir", 0),
             Entry("node_modules", "node_modules", "file", 3),
             Entry("a.md", "a.md", "file", 4),
             Entry("txt", "txt", "file", 2)>>
    ELSE IF path = "lib"
      THEN <<Entry("link", "lib/link", "symlink", 7),
             Entry("node_modules", "lib/node_modules", "file", 3),
             Entry("c.bin", "lib/c.bin", "file", 5),
             Entry("big.md", "lib/big.md", "file", TEXT_SIZE_LIMIT)>>
    ELSE <<>>
MixedDirPaths == {"", "lib"}

Listing(path) ==
    IF source = "small" THEN SmallListing(path)
    ELSE IF source = "wide" THEN WideListing(path)
    ELSE IF source = "long" THEN LongListing(path)
    ELSE MixedListing(path)
DirPaths ==
    IF source = "small" THEN SmallDirPaths
    ELSE IF source = "wide" THEN WideDirPaths
    ELSE IF source = "long" THEN LongDirPaths
    ELSE MixedDirPaths
ExclusionSets == {{}, {"node_modules"}}

ContentResponse(path) == [encoding |-> "base64", content |-> <<"base64", "text of " \o path>>]
\* Buffer.from(content, 'base64').toString()
Base64Decode(c) == c[2]

\* name.split('.')
SplitDot(name) ==
    CASE name = "README.MD" -> <<"README", "MD">>
      [] name = "big.md" -> <<"big", "md">>
      [] name = "x.bin" -> <<"x", "bin">>
      [] name = "a.md" -> <<"a", "md">>
      [] name = "c.bin" -> <<"c", "bin">>
      [] OTHER -> <<name>>
\* path.split('/')
SplitSlash(path) ==
    CASE path = "src/node_modules" -> <<"src", "node_modules">>
      [] OTHER -> <<path>>
ToLowerCase(s) == IF s = "MD" THEN "md" ELSE IF s = "README" THEN "readme" ELSE s
Pop(seq) == seq[Len(seq)]

TextExtensions ==
    {"txt", "md", "js", "jsx", "ts", "tsx", "json", "html", "css", "scss",
     "xml", "yaml", "yml", "csv", "py", "java", "c", "cpp", "h", "sh", "bat"}
isTextFile(filename) ==
    LET extension == ToLowerCase(Pop(SplitDot(filename))) IN
    IF extension # "" THEN extension \in TextExtensions ELSE FALSE

\* the directory whose listing holds the entry with this path
ParentPath(path) ==
    CHOOSE d \in DirPaths : \E k \in 1..Len(Listing(d)) : Listing(d)[k].path = path

(***************************************************************************)
(* Response cache: apiCache, getCachedResponse, setCachedResponse.         *)
(***************************************************************************)
\* `${namespace}:${owner}/${repo}/${path}` (one owner/repo here)
CacheKey(namespace, path) == <<namespace, path>>

ExpireAfterOrAtTtl(age) == age >= CACHE_TTL
Expired(age) == age > CACHE_TTL

getCachedResponse(cache, key, t) ==
    IF key \notin DOMAIN cache
      THEN [hit |-> FALSE, data |-> Null, cache |-> cache]
    ELSE IF Expired(t - cache[key].timestamp)
      THEN [hit |-> FALSE, data |-> Null,
            cache |-> [k \in DOMAIN cache \ {key} |-> cache[k]]]
    ELSE [hit |-> TRUE, data |-> cache[key].data, cache |-> cache]

setCachedResponse(cache, key, data, t) ==
    [k \in DOMAIN cache \cup {key} |->
        IF k = key THEN [data |-> data, timestamp |-> t] ELSE cache[k]]

EmptyCache == [k \in {} |-> Null]

(***************************************************************************)
(* Tree nodes (FileNode).  Optional fields are present or absent.          *)
(***************************************************************************)
EntryNode(item) ==
    [name |-> item.name, path |-> item.path,
     type |-> IF item.type = "dir" THEN "directory" ELSE "file", size |-> item.size]
SetExtension(node, x) ==
    [name |-> node.name, path |-> node.path, type |-> node.type, size |-> node.size,
     extension |-> x]
SetContent(node, c) ==
    IF "extension" \in DOMAIN node
      THEN [name |-> node.name, path |-> node.path, type |-> node.type, size |-> node.size,
            extension |-> node.extension, content |-> c]
      ELSE [name |-> node.name, path |-> node.path, type |-> node.type, size |-> node.size,
            content |-> c]
ChildrenNotSet(node, ch) == node
SetChildren(node, ch) ==
    [name |-> node.name, path |-> node.path, type |-> node.type, size |-> node.size,
     children |-> ch]
\* the extension assignment of fetchDirectory (line 467)
WithExtension(node, item) ==
    IF Len(SplitDot(item.name)) > 1 THEN SetExtension(node, Pop(SplitDot(item.name))) ELSE node
DirResult(path, children) ==
    [name |-> IF Pop(SplitSlash(path)) # "" THEN Pop(SplitSlash(path)) ELSE Repo,
     path |-> path, type |-> "directory", children |-> children]


(***************************************************************************)
(* parseGitHubUrl.  A reference string is a sequence of tokens: "/" is the *)
(* one token that holds a slash, "github.com" the one that holds the host  *)
(* the pattern looks for, ".git" the one that holds '.git'.  The regular   *)
(* expression is matched as the engine matches it: leftmost, each group    *)
(* greedy.                                                                 *)
(***************************************************************************)
VARIABLES
    reference,       \* the reference handed to parseGitHubUrl: scheme, host, segments
    parsed           \* what parseGitHubUrl settled with

urlVars == <<reference, parsed>>

MsgInvalidUrl == "Invalid GitHub URL format. Please provide a valid GitHub repository URL."

Slash == "/"
GitHubHost == "github.com"
DotGit == ".git"

\* the string of a reference: scheme, host, and a slash before every segment
RECURSIVE JoinSegments(_)
JoinSegments(segs) ==
    IF segs = <<>> THEN <<>> ELSE <<Slash>> \o Head(segs) \o JoinSegments(Tail(segs))
Render(ref) == ref.scheme \o <<ref.host>> \o JoinSegments(ref.segs)

\* [^\/]+ from position i: the last position of the longest run without a slash
RECURSIVE RunEnd(_, _)
RunEnd(url, i) ==
    IF i <= Len(url) /\ url[i] # Slash THEN RunEnd(url, i + 1) ELSE i - 1

\* (?:\/tree\/[^\/]+)? from position p: the position after the group
AfterTree(url, p) ==
    IF /\ p + 3 <= Len(url)
       /\ url[p] = Slash /\ url[p + 1] = "tree" /\ url[p + 2] = Slash
       /\ RunEnd(url, p + 3) >= p + 3
      THEN RunEnd(url, p + 3) + 1
      ELSE p

\* the pattern matched at position i, the position of 'github.com'
MatchAt(url, i) ==
    LET o1 == i + 2
        o2 == RunEnd(url, o1)
        r1 == o2 + 2
        r2 == RunEnd(url, r1)
        t == AfterTree(url, r2 + 1)
    IN IF /\ url[i] = GitHubHost
          /\ i + 1 <= Len(url) /\ url[i + 1] = Slash
          /\ o2 >= o1
          /\ o2 + 1 <= Len(url) /\ url[o2 + 1] = Slash
          /\ r2 >= r1
         THEN [matched |-> TRUE,
               m1 |-> SubSeq(url, o1, o2),
               m2 |-> SubSeq(url, r1, r2),
               m3 |-> IF t <= Len(url) /\ url[t] = Slash
                        THEN SubSeq(url, t + 1, Len(url))
                        ELSE <<>>]
         ELSE [matched |-> FALSE]

\* url.match(githubRegex)
RegexMatch(url) ==
    LET hits == {i \in 1..Len(url) : MatchAt(url, i).matched}
    IN IF hits = {} THEN [matched |-> FALSE]
       ELSE MatchAt(url, CHOOSE i \in hits : \A k \in hits : i <= k)

\* name.replace('.git', ''): the first occurrence goes, wherever it is
RECURSIVE ReplaceFirstDotGit(_)
ReplaceFirstDotGit(name) ==
    IF name = <<>> THEN <<>>
    ELSE IF Head(name) = DotGit THEN Tail(name)
    ELSE <<Head(name)>> \o ReplaceFirstDotGit(Tail(name))

NotParsed == [kind |-> "none"]
Located(owner, repo, path) == [kind |-> "ok", owner |-> owner, repo |-> repo, path |-> path]
InvalidInput == [kind |-> "error", error |-> NewError(MsgInvalidUrl)]

parseGitHubUrl(url) ==
    LET match == RegexMatch(url)
    IN IF ~match.matched THEN InvalidInput
       ELSE Located(match.m1, ReplaceFirstDotGit(match.m2), match.m3)

NoReference == [scheme |-> <<>>, host |-> "", segs |-> <<>>]
UrlIdle == reference = NoReference /\ parsed = NotParsed

(***************************************************************************)
(* fetchGitHubContents: state of the shared cache and of the current build *)
(***************************************************************************)
VARIABLES
    apiCache,        \* the module-level cache: key -> [data, timestamp]
    now,             \* Date.now()
    pc,              \* where fetchGitHubContents stands
    options,         \* options.excludePatterns of the current build
    aborted,         \* controller.signal.aborted of the current build
    fr,              \* the countFiles / fetchDirectory invocations, by pass and path
    calls,           \* remote calls the current build has started, by call site
    totalFiles,
    processedFiles,
    outcome,         \* what the current build settled with
    builds,          \* builds started so far
    faults,          \* failing or unanswered calls so far
    writes,          \* times of the current build's cache writes
    thrown,          \* what the listing calls of the current build were rejected with
    startedAt,       \* time the current build started
    prev,            \* the previous build: its options, outcome and cache writes
    rateLimit,       \* what the rate-limit query of the current build settled with
    stored,          \* every setCachedResponse so far: key, data and the build's options
    repoSize,        \* what checkRepositorySize of the current build returned
    watchdog,        \* the OVERALL_TIMEOUT timer of the current build
    entrySignal      \* signal.aborted when fetchGitHubContents was entered

\* parseLocalPath: the state of a local build
VARIABLES
    lpc,             \* where parseLocalPath stands
    lfr,             \* the processDirectory invocations, by directory
    lops,            \* operations on directory and file handles started so far
    lAborted,        \* signal.aborted of the local build
    lOutcome         \* what the local build settled with

localVars == <<lpc, lfr, lops, lAborted, lOutcome>>

\* App: the state of the component that starts the builds
VARIABLES
    processingStatus, \* status and abortController of the ProcessingStatus state
    appData,          \* data: the displayed tree
    isLoading,
    captured,         \* the processingStatus the running handleDirectorySubmit closed over
    cancelled,        \* handleCancelProcessing has run for the build in flight
    maxDepth          \* options.maxDepth

appVars == <<processingStatus, appData, isLoading, captured, cancelled>>

buildVars == <<apiCache, now, pc, options, aborted, fr, calls, totalFiles, processedFiles,
               outcome, builds, faults, writes, thrown, startedAt, prev, rateLimit, stored,
               repoSize, watchdog, entrySignal, source>>
vars == <<wrVars, buildVars, localVars, urlVars, appVars, maxDepth>>

Passes == {"count", "fetch"}
FrameKeys == Passes \X DirPaths
FilePaths ==
    UNION {{Listing(d)[k].path : k \in 1..Len(Listing(d))} : d \in DirPaths} \ DirPaths
CallSites == FrameKeys \cup ({"content"} \X FilePaths)
\* the calls of the quota and access checks
QuotaSites == {"quota"} \X {"rateLimit", "repoAccess", "repoSize"}
Sites == CallSites \cup QuotaSites

\* an invocation of countFiles / fetchDirectory
Frame(st, retries, i, results, items, val) ==
    [st |-> st, retries |-> retries, i |-> i, results |-> results, items |-> items, val |-> val]
NoFrame == Frame("none", 0, 0, <<>>, <<>>, Null)
InCall(retries) == Frame("call", retries, 0, <<>>, <<>>, Null)
Returned(v) == Frame("ok", 0, 0, <<>>, <<>>, v)
Thrown(e) == Frame("err", 0, 0, <<>>, <<>>, e)

\* an item of the batch in progress and what its processor resolved with
NullRes == [null |-> TRUE, v |-> Null]
Value(v) == [null |-> FALSE, v |-> v]
\* an item that holds no node
NoNode == [null |-> TRUE]
Done(res) == [st |-> "done", retries |-> 0, node |-> NoNode, res |-> res]
Pending(st, retries, node) == [st |-> st, retries |-> retries, node |-> node, res |-> NullRes]

\* the state one macrotask and its continuations work on
Bundle == [fr |-> fr, cache |-> apiCache, calls |-> calls, processed |-> processedFiles,
           writes |-> writes, thrown |-> thrown, stored |-> stored]
Put(S, key, data) ==
    [S EXCEPT !.cache = setCachedResponse(@, key, data, now),
              !.writes = @ \cup {now},
              !.stored = @ \cup {[key |-> key, data |-> data, options |-> options]}]
Called(S, site) == [S EXCEPT !.calls[site] = @ + 1]
\* updateProgress()
Progress(S) == [S EXCEPT !.processed = @ + 1]

\* options?.excludePatterns?.includes(name)
NeverExcluded(excludePatterns, name) == FALSE
Excluded(excludePatterns, name) == name \in excludePatterns

(***************************************************************************)
(* The catch blocks of countFiles and fetchDirectory.                      *)
(***************************************************************************)
countFilesCatch(error, ab) ==
    IF ab \/ error.name = "AbortError"
      THEN Thrown(NewError(MsgCancelledCount))
      ELSE Returned(0)
fetchDirectoryCatch(error, ab) ==
    IF ab \/ error.name = "AbortError"
      THEN Thrown(NewError(MsgCancelled))
    ELSE IF IncludesTimedOut(error.message)
      THEN Thrown(NewError(MsgDirTimedOut))
    ELSE Thrown(error)
DirCatch(pass, error, ab) ==
    IF pass = "count" THEN countFilesCatch(error, ab) ELSE fetchDirectoryCatch(error, ab)

DirNamespace(pass) == IF pass = "count" THEN "count" ELSE "dir"

(***************************************************************************)
(* countFiles(path) / fetchDirectory(path) up to their first await: the    *)
(* cancellation check, the cache lookup and the first attempt of withRetry.*)
(***************************************************************************)
EnterDir(S, pass, path, ab) ==
    LET key == <<pass, path>>
        g == getCachedResponse(S.cache, CacheKey(DirNamespace(pass), path), now)
        S1 == [S EXCEPT !.cache = g.cache]
    IN IF ab
         THEN [S EXCEPT !.fr[key] = Thrown(NewError(MsgCancelled))]
       ELSE IF g.hit
         THEN [S1 EXCEPT !.fr[key] = Returned(g.data)]
       ELSE IF WithRetryEnter(ab)
         THEN [Called(S1, key) EXCEPT !.fr[key] = InCall(MAX_RETRIES)]
       ELSE [S1 EXCEPT !.fr[key] =
                DirCatch(pass, WithRetryCatch(NewError(MsgCancelled), MAX_RETRIES, ab).err, ab)]

(***************************************************************************)
(* The per-item processors handed to processBatch.                         *)
(***************************************************************************)
CountItem(S, item, ab) ==
    IF item.type = "file"
      THEN [S |-> S, item |-> Done(Value(1))]
    ELSE IF item.type = "dir" /\ ~Excluded(options, item.name)
      THEN LET S1 == EnterDir(S, "count", item.path, ab)
               f == S1.fr[<<"count", item.path>>]
           IN IF f.st = "ok" THEN [S |-> S1, item |-> Done(Value(f.val))]
              ELSE IF f.st = "err" THEN [S |-> S1, item |-> Done(NullRes)]
              ELSE [S |-> S1, item |-> Pending("sub", 0, NoNode)]
    ELSE [S |-> S, item |-> Done(Value(0))]

FetchItem(S, item, ab) ==
    IF Excluded(options, item.name)
      THEN \* the processor returns null; processBatch then calls updateProgress
           [S |-> Progress(S), item |-> Done(NullRes)]
    ELSE IF item.type = "file"
      THEN LET S1 == Progress(S)
               node == WithExtension(EntryNode(item), item)
           IN IF item.size < TEXT_SIZE_LIMIT /\ isTextFile(item.name)
                THEN LET g == getCachedResponse(S1.cache, CacheKey("content", item.path), now)
                         S2 == [S1 EXCEPT !.cache = g.cache]
                     IN IF g.hit
                          THEN [S |-> Progress(S2), item |-> Done(Value(SetContent(node, g.data)))]
                        ELSE IF ab \/ ~WithRetryEnter(ab)
                          THEN \* thrown and swallowed by the content catch block
                               [S |-> Progress(S2), item |-> Done(Value(node))]
                        ELSE [S |-> Called(S2, <<"content", item.path>>),
                              item |-> Pending("call", MAX_RETRIES, node)]
                ELSE [S |-> Progress(S1), item |-> Done(Value(node))]
    ELSE IF item.type = "dir"
      THEN LET S1 == EnterDir(S, "fetch", item.path, ab)
               f == S1.fr[<<"fetch", item.path>>]
               node == EntryNode(item)
           IN IF f.st = "ok"
                THEN [S |-> Progress(S1), item |-> Done(Value(SetChildren(node, f.val.children)))]
              ELSE IF f.st = "err" THEN [S |-> S1, item |-> Done(NullRes)]
              ELSE [S |-> S1, item |-> Pending("sub", 0, node)]
    ELSE \* neither branch is taken: the node is returned as it was built
         [S |-> Progress(S), item |-> Done(Value(EntryNode(item)))]

(***************************************************************************)
(* processBatch                                                            *)
(***************************************************************************)
\* one element of batch.map(async (item) => ...), up to its first await
StartItem(S, pass, item, ab) ==
    IF ab THEN [S |-> S, item |-> Done(NullRes)]
    ELSE IF pass = "count" THEN CountItem(S, item, ab)
    ELSE FetchItem(S, item, ab)

RECURSIVE StartItems(_, _, _, _, _)
StartItems(S, pass, batch, ab, acc) ==
    IF batch = <<>> THEN [S |-> S, items |-> acc]
    ELSE LET r == StartItem(S, pass, Head(batch), ab)
         IN StartItems(r.S, pass, Tail(batch), ab, Append(acc, r.item))

\* batchResults.filter(Boolean)
NewestFirst(pass, items) ==
    LET Truthy(it) == ~it.res.null /\ (pass = "count" => it.res.v # 0)
        kept == SelectSeq(items, Truthy)
    IN [j \in 1..Len(kept) |-> kept[Len(kept) + 1 - j].res.v]
FilterBoolean(pass, items) ==
    LET Truthy(it) == ~it.res.null /\ (pass = "count" => it.res.v # 0)
        kept == SelectSeq(items, Truthy)
    IN [j \in 1..Len(kept) |-> kept[j].res.v]

\* Promise.all over the batch: once every item has settled, the results are
\* pushed and the inter-batch delay starts
SettledBatch(S, key, items) ==
    IF \A j \in 1..Len(items) : items[j].st = "done"
      THEN [S EXCEPT !.fr[key].results = @ \o FilterBoolean(key[1], items),
                     !.fr[key].items = <<>>,
                     !.fr[key].st = "pause"]
      ELSE [S EXCEPT !.fr[key].items = items, !.fr[key].st = "batch"]

\* a nested countFiles / fetchDirectory settles inside its parent's batch
ChildFailureRejects(S, key) ==
    LET pass == key[1]
        pk == <<pass, ParentPath(key[2])>>
        pf == S.fr[pk]
        j == CHOOSE j \in 1..Len(pf.items) : Listing(pk[2])[pf.i + j].path = key[2]
        f == S.fr[key]
        res == IF pass = "count" THEN Value(f.val)
               ELSE Value(SetChildren(pf.items[j].node, f.val.children))
        S1 == IF f.st = "ok" /\ pass = "fetch" THEN Progress(S) ELSE S
    IN IF pf.st # "batch" THEN S
       ELSE IF f.st = "err" THEN [S EXCEPT !.fr[pk] = Thrown(f.val)]
       ELSE SettledBatch(S1, pk, [pf.items EXCEPT ![j] = Done(res)])
ChildSettled(S, key) ==
    LET pass == key[1]
        pk == <<pass, ParentPath(key[2])>>
        pf == S.fr[pk]
        j == CHOOSE j \in 1..Len(pf.items) : Listing(pk[2])[pf.i + j].path = key[2]
        f == S.fr[key]
        res == IF f.st = "err" THEN NullRes
               ELSE IF pass = "count" THEN Value(f.val)
               ELSE Value(SetChildren(pf.items[j].node, f.val.children))
        S1 == IF f.st = "ok" /\ pass = "fetch" THEN Progress(S) ELSE S
    IN SettledBatch(S1, pk, [pf.items EXCEPT ![j] = Done(res)])

Settle(S, key, frame) ==
    LET S1 == [S EXCEPT !.fr[key] = frame]
    IN IF key[2] = Root THEN S1 ELSE ChildSettled(S1, key)

RECURSIVE Sum(_)
Sum(counts) == IF counts = <<>> THEN 0 ELSE Head(counts) + Sum(Tail(counts))

\* processBatch has returned: the tail of countFiles / fetchDirectory
FinishDir(S, key) ==
    IF key[1] = "count"
      THEN LET total == Sum(S.fr[key].results)
           IN Settle(Put(S, CacheKey("count", key[2]), total), key, Returned(total))
      ELSE LET result == DirResult(key[2], S.fr[key].results)
           IN Settle(Put(S, CacheKey("dir", key[2]), result), key, Returned(result))

\* the loop of processBatch at index i
StartBatchUnchecked(S, key, i, ab) ==
    LET entries == Listing(key[2])
        n == Len(entries)
        hi == IF i + BATCH_SIZE < n THEN i + BATCH_SIZE ELSE n
    IN IF i >= n THEN FinishDir(S, key)
       ELSE LET r == StartItems(S, key[1], SubSeq(entries, i + 1, hi), ab, <<>>)
            IN SettledBatch([r.S EXCEPT !.fr[key].i = i], key, r.items)
StartBatch(S, key, i, ab) ==
    LET entries == Listing(key[2])
        n == Len(entries)
        hi == IF i + BATCH_SIZE < n THEN i + BATCH_SIZE ELSE n
    IN IF i >= n THEN FinishDir(S, key)
       ELSE IF ab THEN Settle(S, key, DirCatch(key[1], NewError(MsgCancelled), ab))
       ELSE LET r == StartItems(S, key[1], SubSeq(entries, i + 1, hi), ab, <<>>)
            IN SettledBatch([r.S EXCEPT !.fr[key].i = i], key, r.items)


(***************************************************************************)
(* A directory-listing call (the withRetry of countFiles / fetchDirectory) *)
(* and a file-content call (the withRetry inside the fetch processor).     *)
(***************************************************************************)
ListingFailed(S, key, error, ab) ==
    LET c == WithRetryCatch(error, S.fr[key].retries, ab)
    IN IF c.kind = "throw"
         THEN Settle([S EXCEPT !.thrown = @ \cup {c.err}], key, DirCatch(key[1], c.err, ab))
         ELSE [S EXCEPT !.fr[key].st = "backoff"]

ListingRetryUnbounded(S, key, ab) == [S EXCEPT !.fr[key] = InCall(S.fr[key].retries)]
ListingRetry(S, key, ab) ==
    LET r == S.fr[key].retries - 1
    IN IF WithRetryEnter(ab)
         THEN [Called(S, key) EXCEPT !.fr[key] = InCall(r)]
         ELSE Settle(S, key,
                     DirCatch(key[1], WithRetryCatch(NewError(MsgCancelled), r, ab).err, ab))

ItemPath(S, key, j) == Listing(key[2])[S.fr[key].i + j].path

\* the fetch processor returns its node; processBatch then calls updateProgress
ContentSettled(S, key, j, node) ==
    SettledBatch(Progress(S), key, [S.fr[key].items EXCEPT ![j] = Done(Value(node))])

ContentAnswered(S, key, j) ==
    LET content == Base64Decode(ContentResponse(ItemPath(S, key, j)).content)
        S1 == Put(S, CacheKey("content", ItemPath(S, key, j)), content)
    IN ContentSettled(S1, key, j, SetContent(S.fr[key].items[j].node, content))

\* a failed content fetch is logged and the node is kept without content
ContentFailureDrops(S, key, j, error, ab) ==
    LET c == WithRetryCatch(error, S.fr[key].items[j].retries, ab)
    IN IF c.kind = "throw"
         THEN SettledBatch(S, key, [S.fr[key].items EXCEPT ![j] = Done(NullRes)])
         ELSE [S EXCEPT !.fr[key].items[j].st = "backoff"]
ContentFailed(S, key, j, error, ab) ==
    LET c == WithRetryCatch(error, S.fr[key].items[j].retries, ab)
    IN IF c.kind = "throw"
         THEN ContentSettled(S, key, j, S.fr[key].items[j].node)
         ELSE [S EXCEPT !.fr[key].items[j].st = "backoff"]

ContentRetry(S, key, j, ab) ==
    IF WithRetryEnter(ab)
      THEN [Called(S, <<"content", ItemPath(S, key, j)>>) EXCEPT
               !.fr[key].items[j].st = "call",
               !.fr[key].items[j].retries = @ - 1]
      ELSE ContentSettled(S, key, j, S.fr[key].items[j].node)

(***************************************************************************)
(* controller.abort(): every withRetry in flight is rejected by the abort  *)
(* listener of its timeout promise.                                        *)
(***************************************************************************)
RECURSIVE AbortItems(_, _, _)
AbortItems(S, key, j) ==
    IF S.fr[key].st # "batch" \/ j > Len(S.fr[key].items) THEN S
    ELSE IF S.fr[key].items[j].st = "call"
      THEN AbortItems(ContentFailed(S, key, j, AbortRejection, TRUE), key, j + 1)
    ELSE AbortItems(S, key, j + 1)

WideOrder(pass) ==
    [k \in 1..WideLeft |-> <<pass, WideSub("d1", k).path>>]
    \o [k \in 1..WideRight |-> <<pass, WideSub("d2", k).path>>]
    \o <<<<pass, "d1">>, <<pass, "d2">>, <<pass, "">>>>
FrameOrder ==
    IF source = "small"
      THEN <<<<"count", "src/node_modules">>, <<"count", "src">>, <<"count", "">>,
             <<"fetch", "src/node_modules">>, <<"fetch", "src">>, <<"fetch", "">>>>
    ELSE IF source = "mixed"
      THEN <<<<"count", "lib">>, <<"count", "">>, <<"fetch", "lib">>, <<"fetch", "">>>>
      ELSE WideOrder("count") \o WideOrder("fetch")

RECURSIVE AbortFrames(_, _)
AbortFrames(S, keys) ==
    IF keys = <<>> THEN S
    ELSE LET key == Head(keys)
             S1 == IF S.fr[key].st = "call"
                     THEN ListingFailed(S, key, AbortRejection, TRUE)
                   ELSE IF S.fr[key].st = "batch" THEN AbortItems(S, key, 1)
                   ELSE S
         IN AbortFrames(S1, Tail(keys))

(***************************************************************************)
(* fetchGitHubContents: the outer catch block and the two passes.          *)
(***************************************************************************)
ClassifyBeforeToken(error, ab) ==
    IF error.name = "AbortError" THEN NewError(MsgCancelled)
    ELSE IF IncludesTimedOut(error.message) THEN NewError(MsgBuildTimedOut)
    ELSE IF error.status = 403 THEN NewError(MsgBuild403)
    ELSE IF error.status = 404 THEN NewError(MsgBuild404)
    ELSE error
BuildCatch(error, ab) ==
    IF ab \/ error.name = "AbortError" THEN NewError(MsgCancelled)
    ELSE IF IncludesTimedOut(error.message) THEN NewError(MsgBuildTimedOut)
    ELSE IF error.status = 403 THEN NewError(MsgBuild403)
    ELSE IF error.status = 404 THEN NewError(MsgBuild404)
    ELSE error

\* const { data: rateLimit } = await octokit.rest.rateLimit.get()
NoRateLimit == [kind |-> "none"]
RateLimitData(remaining) == [kind |-> "data", remaining |-> remaining]
RateLimitError(error) == [kind |-> "error", error |-> error]

\* the catch block around the quota and access checks
EveryFailureNotFound(error) == NewError(MsgRepoNotFound)
QuotaCatch(error) ==
    IF error.status = 404 THEN NewError(MsgRepoNotFound) ELSE error

\* checkRepositorySize: data.size is in KB; the comparison data.size / 1024 > 100
\* is made on the KB figure here
NoSize == [kind |-> "none", isLarge |-> FALSE, size |-> 0]
checkRepositorySize(size) ==
    [kind |-> "data", isLarge |-> size > LARGE_REPO_MB * 1024, size |-> size]
checkRepositorySizeCatch == [kind |-> "error", isLarge |-> FALSE, size |-> 0]
\* if (isLarge) { if (size > 500) throw ... }
TooLarge(check) == check.isLarge /\ check.size > REFUSED_REPO_MB * 1024

NoOutcome == [kind |-> "none"]
Resolved(tree) == [kind |-> "tree", tree |-> tree]
Rejected(error) == [kind |-> "error", error |-> error]

Step(S, at, total, out) == [S |-> S, pc |-> at, total |-> total, outcome |-> out]

\* const result = await fetchDirectory(path); return result
FinishFetch(S, ab, total) ==
    LET g == S.fr[<<"fetch", Root>>]
    IN IF g.st = "ok" THEN Step(S, "resolved", total, Resolved(g.val))
       ELSE IF g.st = "err" THEN Step(S, "rejected", total, Rejected(BuildCatch(g.val, ab)))
       ELSE Step(S, "fetch", total, NoOutcome)

\* totalFiles = await countFiles(path); the check after counting
FinishCount(S, ab, total) ==
    LET c == S.fr[<<"count", Root>>]
    IN IF c.st = "ok"
         THEN IF ab
                THEN Step(S, "rejected", c.val,
                          Rejected(BuildCatch(NewError(MsgCancelled), ab)))
                ELSE FinishFetch(EnterDir(S, "fetch", Root, ab), ab, c.val)
       ELSE IF c.st = "err"
         THEN Step(S, "rejected", total, Rejected(BuildCatch(c.val, ab)))
       ELSE Step(S, "count", total, NoOutcome)

\* the continuations of fetchGitHubContents itself, from where it stands
Finish(S, at, ab, total) ==
    CHOOSE step \in {IF at = "count" THEN FinishCount(T, ab, total)
                                      ELSE FinishFetch(T, ab, total) : T \in {S}} : TRUE

\* (the step is bound once, so that it is computed once)
Commit(r) ==
    \E step \in {r} :
        /\ fr' = step.S.fr
        /\ apiCache' = step.S.cache
        /\ calls' = step.S.calls
        /\ processedFiles' = step.S.processed
        /\ writes' = step.S.writes
        /\ thrown' = step.S.thrown
        /\ stored' = step.S.stored
        /\ pc' = step.pc
        /\ totalFiles' = step.total
        /\ outcome' = step.outcome
        /\ watchdog' = IF step.pc \in {"resolved", "rejected"} THEN "cleared" ELSE watchdog

Reject(error) ==
    /\ pc' = "rejected"
    /\ outcome' = Rejected(error)
    /\ watchdog' = "cleared"
    /\ UNCHANGED <<fr, apiCache, calls, processedFiles, writes, thrown, totalFiles, stored>>

Traversing == pc \in {"count", "fetch"}
Settled == pc \in {"resolved", "rejected"}

(***************************************************************************)
(* parseLocalPath and processDirectory.  The directory handle chosen in    *)
(* the picker holds the same structure as the remote source; a handle is   *)
(* identified by the source path of its directory.                         *)
(***************************************************************************)
LOCAL_BATCH_SIZE == 20
LocalRootName == "repo"

MsgUnsupported == "Your browser does not support the File System Access API. Please use a modern browser such as Chrome, Edge, or Opera."
MsgPickerCancelled == "Folder selection was canceled."
MsgAccessDenied == "Access denied. Please allow folder access when prompted by the browser."
MsgLocalRead == "Error reading the local folder. Please check the permissions and try again."
MsgNotAllowed == "The request is not allowed by the user agent (permission)."
MsgNotReadable == "The requested file could not be read."

ErrPickerAbort == Err("AbortError", 0, MsgAbort)
ErrSecurity == Err("SecurityError", 0, MsgNotAllowed)
ErrNotReadable == Err("NotReadableError", 0, MsgNotReadable)
HandleFailures == {ErrSecurity, ErrNotReadable}

\* error.message?.includes('permission')
IncludesPermission(m) == m \in {MsgNotAllowed, MsgLocalRead}

\* the catch block of parseLocalPath, around the picker
PickerCatch(error, ab) ==
    IF error.name = "AbortError" \/ ab THEN NewError(MsgPickerCancelled)
    ELSE IF error.name = "SecurityError" \/ IncludesPermission(error.message)
      THEN NewError(MsgAccessDenied)
    ELSE NewError(MsgLocalRead)

\* the catch block of processDirectory
processDirectoryCatch(error, ab) ==
    IF ab THEN NewError(MsgCancelled) ELSE error

LocalFrame(st, name, path, i, children, items, val) ==
    [st |-> st, name |-> name, path |-> path, i |-> i, children |-> children,
     items |-> items, val |-> val]
NoLocalFrame == LocalFrame("none", "", "", 0, <<>>, <<>>, Null)
LocalDir(name, path, children) ==
    [name |-> name, path |-> path, type |-> "directory", children |-> children]
LocalFile(name, path, size) ==
    LET node == [name |-> name, path |-> path, type |-> "file", size |-> size]
    IN IF Len(SplitDot(name)) > 1
         THEN [name |-> name, path |-> path, type |-> "file", size |-> size,
               extension |-> Pop(SplitDot(name))]
         ELSE node

LocalBundle == [lfr |-> lfr, lops |-> lops]
Op(L, op, p) == [L EXCEPT !.lops = @ \cup {<<op, p>>}]

\* processDirectory(dirHandle, name, path, options, signal) up to its first await
EnterLocal(L, p, name, path, ab) ==
    IF ab
      THEN [L EXCEPT !.lfr[p] =
               LocalFrame("err", name, path, 0, <<>>, <<>>, NewError(MsgCancelled))]
    ELSE IF Excluded(options, name)
      THEN [L EXCEPT !.lfr[p] =
               LocalFrame("ok", name, path, 0, <<>>, <<>>, LocalDir(name, path, <<>>))]
    ELSE [Op(L, "values", p) EXCEPT !.lfr[p] =
               LocalFrame("listing", name, path, 0, <<>>, <<>>, Null)]

\* one element of batch.map(async (entry) => ...), up to its first await
LocalItem(entry, ab) ==
    IF ab THEN Done(NullRes)
    ELSE IF entry.type = "dir" /\ Excluded(options, entry.name) THEN Done(NullRes)
    ELSE IF entry.type = "file" THEN Pending("file", 0, NoNode)
    ELSE IF entry.type = "dir" THEN Pending("handle", 0, NoNode)
    ELSE Done(NullRes)

LocalItemOps(p, batch, items) ==
    {<<"getFileHandle", batch[j].path>> : j \in {j \in 1..Len(batch) : items[j].st = "file"}}
    \cup
    {<<"getDirectoryHandle", batch[j].path>> :
        j \in {j \in 1..Len(batch) : items[j].st = "handle"}}

\* batchResults.filter(Boolean), pushed to children; then the setTimeout(0)
LocalSettledBatch(L, p, items) ==
    IF \A j \in 1..Len(items) : items[j].st = "done"
      THEN [L EXCEPT !.lfr[p].children = @ \o FilterBoolean("local", items),
                     !.lfr[p].items = <<>>,
                     !.lfr[p].st = "pause"]
      ELSE [L EXCEPT !.lfr[p].items = items, !.lfr[p].st = "batch"]

ItemIndex(L, parent, p) ==
    CHOOSE j \in 1..Len(L.lfr[parent].items) : Listing(parent)[L.lfr[parent].i + j].path = p

\* a nested processDirectory settles inside its parent's batch; a rejection
\* is logged and the entry dropped
LocalChildSettled(L, p) ==
    LET parent == ParentPath(p)
        f == L.lfr[p]
        res == IF f.st = "err" THEN NullRes ELSE Value(f.val)
    IN LocalSettledBatch(L, parent,
                         [L.lfr[parent].items EXCEPT ![ItemIndex(L, parent, p)] = Done(res)])

LocalSettle(L, p, st, val) ==
    LET L1 == [L EXCEPT !.lfr[p].st = st, !.lfr[p].val = val]
    IN IF p = Root THEN L1 ELSE LocalChildSettled(L1, p)

\* the batch loop of processDirectory at index i
LocalStartBatch(L, p, i, ab) ==
    LET entries == Listing(p)
        n == Len(entries)
        hi == IF i + LOCAL_BATCH_SIZE < n THEN i + LOCAL_BATCH_SIZE ELSE n
        batch == SubSeq(entries, i + 1, hi)
        items == [j \in 1..Len(batch) |-> LocalItem(batch[j], ab)]
        f == L.lfr[p]
    IN IF i >= n
         THEN LocalSettle(L, p, "ok", LocalDir(f.name, f.path, f.children))
       ELSE IF ab
         THEN LocalSettle(L, p, "err", processDirectoryCatch(NewError(MsgCancelled), ab))
       ELSE LocalSettledBatch(
                [L EXCEPT !.lfr[p].i = i, !.lops = @ \cup LocalItemOps(p, batch, items)],
                p, items)

\* parseLocalPath returns the promise of processDirectory without awaiting
\* it, so its catch block does not see what processDirectory rejects with
LocalCommit(L) ==
    LET root == L.lfr[Root]
    IN /\ lfr' = L.lfr
       /\ lops' = L.lops
       /\ IF root.st = "ok"
            THEN lpc' = "resolved" /\ lOutcome' = Resolved(root.val)
          ELSE IF root.st = "err"
            THEN lpc' = "rejected" /\ lOutcome' = Rejected(root.val)
          ELSE lpc' = "running" /\ lOutcome' = lOutcome

LocalIdle ==
    /\ lpc = "idle"
    /\ lfr = [p \in DirPaths |-> NoLocalFrame]
    /\ lops = {}
    /\ lAborted = FALSE
    /\ lOutcome = NoOutcome

LocalRest == <<apiCache, now, pc, aborted, fr, calls, totalFiles, processedFiles, outcome,
               builds, writes, thrown, startedAt, prev, rateLimit, stored, repoSize, watchdog, entrySignal, source,
               wrVars, urlVars>>

\* parseLocalPath(path, options, signal) up to the picker
StartLocal(E, supported, preAborted) ==
    /\ pc = "idle"
    /\ lpc = "idle"
    /\ options' = E
    /\ lAborted' = preAborted
    /\ IF ~supported
         THEN lpc' = "rejected" /\ lOutcome' = Rejected(NewError(MsgUnsupported))
       ELSE IF preAborted
         THEN lpc' = "rejected" /\ lOutcome' = Rejected(NewError(MsgCancelled))
       ELSE lpc' = "picker" /\ lOutcome' = lOutcome
    /\ UNCHANGED <<lfr, lops, faults, LocalRest>>

\* window.showDirectoryPicker() hands over the directory handle
PickerAnswers ==
    /\ lpc = "picker"
    /\ LocalCommit(EnterLocal(LocalBundle, Root, LocalRootName, LocalRootName, lAborted))
    /\ UNCHANGED <<options, lAborted, faults, LocalRest>>

\* the user dismisses the picker, or access is refused
PickerFails(e) ==
    /\ lpc = "picker"
    /\ lpc' = "rejected"
    /\ lOutcome' = Rejected(PickerCatch(e, lAborted))
    /\ UNCHANGED <<lfr, lops, options, lAborted, faults, LocalRest>>

\* for await (const entry of dirHandle.values()) has read every entry
LocalListingAnswers(p) ==
    /\ lpc = "running"
    /\ lfr[p].st = "listing"
    /\ LocalCommit(LocalStartBatch(LocalBundle, p, 0, lAborted))
    /\ UNCHANGED <<options, lAborted, faults, LocalRest>>

LocalListingFails(p, e) ==
    /\ lpc = "running"
    /\ lfr[p].st = "listing"
    /\ faults < MaxFaults
    /\ faults' = faults + 1
    /\ LocalCommit(LocalSettle(LocalBundle, p, "err", processDirectoryCatch(e, lAborted)))
    /\ UNCHANGED <<options, lAborted, LocalRest>>

\* getFileHandle and getFile of a file entry answer
FileAnswers(p, j) ==
    /\ lpc = "running"
    /\ lfr[p].st = "batch"
    /\ j \in 1..Len(lfr[p].items)
    /\ lfr[p].items[j].st = "file"
    /\ LET entry == Listing(p)[lfr[p].i + j]
           node == LocalFile(entry.name, lfr[p].path \o "/" \o entry.name, entry.size)
       IN LocalCommit(LocalSettledBatch(LocalBundle, p,
                                        [lfr[p].items EXCEPT ![j] = Done(Value(node))]))
    /\ UNCHANGED <<options, lAborted, faults, LocalRest>>

\* getFileHandle or getFile fails: logged, the entry is dropped
FileFails(p, j, e) ==
    /\ lpc = "running"
    /\ lfr[p].st = "batch"
    /\ j \in 1..Len(lfr[p].items)
    /\ lfr[p].items[j].st = "file"
    /\ faults < MaxFaults
    /\ faults' = faults + 1
    /\ LocalCommit(LocalSettledBatch(LocalBundle, p,
                                     [lfr[p].items EXCEPT ![j] = Done(NullRes)]))
    /\ UNCHANGED <<options, lAborted, LocalRest>>

\* getDirectoryHandle answers: processDirectory of the subdirectory starts
HandleAnswers(p, j) ==
    /\ lpc = "running"
    /\ lfr[p].st = "batch"
    /\ j \in 1..Len(lfr[p].items)
    /\ lfr[p].items[j].st = "handle"
    /\ LET entry == Listing(p)[lfr[p].i + j]
           L0 == [LocalBundle EXCEPT !.lfr[p].items[j].st = "sub"]
           L1 == EnterLocal(L0, entry.path, entry.name,
                            lfr[p].path \o "/" \o entry.name, lAborted)
       IN LocalCommit(IF L1.lfr[entry.path].st \in {"ok", "err"}
                        THEN LocalChildSettled(L1, entry.path)
                        ELSE L1)
    /\ UNCHANGED <<options, lAborted, faults, LocalRest>>

\* getDirectoryHandle fails: logged, the entry is dropped
HandleFails(p, j, e) ==
    /\ lpc = "running"
    /\ lfr[p].st = "batch"
    /\ j \in 1..Len(lfr[p].items)
    /\ lfr[p].items[j].st = "handle"
    /\ faults < MaxFaults
    /\ faults' = faults + 1
    /\ LocalCommit(LocalSettledBatch(LocalBundle, p,
                                     [lfr[p].items EXCEPT ![j] = Done(NullRes)]))
    /\ UNCHANGED <<options, lAborted, LocalRest>>

\* the setTimeout(0) after a batch elapses: the next round of the loop
LocalPauseElapsed(p) ==
    /\ lpc = "running"
    /\ lfr[p].st = "pause"
    /\ LocalCommit(LocalStartBatch(LocalBundle, p, lfr[p].i + LOCAL_BATCH_SIZE, lAborted))
    /\ UNCHANGED <<options, lAborted, faults, LocalRest>>

\* the signal handed to parseLocalPath fires; nothing listens for the event
LocalAbort ==
    /\ lpc \in {"picker", "running"}
    /\ ~lAborted
    /\ lAborted' = TRUE
    /\ UNCHANGED <<lpc, lfr, lops, lOutcome, options, faults, LocalRest>>

(***************************************************************************)
(* Actions                                                                 *)
(***************************************************************************)
\* useState of App: no tree, not loading, status 'idle' without a controller
NoData == [kind |-> "none"]
Displayed(tree) == [kind |-> "tree", tree |-> tree]
NoController == "none"
Status(status, abortController) == [status |-> status, abortController |-> abortController]
AppIdle ==
    /\ processingStatus = Status("idle", NoController)
    /\ appData = NoData
    /\ isLoading = FALSE
    /\ captured = Status("idle", NoController)
    /\ cancelled = FALSE

AllIdle ==
    /\ WrIdle
    /\ UrlIdle
    /\ LocalIdle
    /\ AppIdle
    /\ maxDepth = DEFAULT_MAX_DEPTH
    /\ apiCache = EmptyCache
    /\ now = 0
    /\ pc = "idle"
    /\ options = {}
    /\ aborted = FALSE
    /\ fr = [key \in FrameKeys |-> NoFrame]
    /\ calls = [site \in Sites |-> 0]
    /\ totalFiles = 0
    /\ processedFiles = 0
    /\ outcome = NoOutcome
    /\ builds = 0
    /\ faults = 0
    /\ writes = {}
    /\ thrown = {}
    /\ startedAt = 0
    /\ prev = [options |-> {}, outcome |-> NoOutcome, writes |-> {}]
    /\ rateLimit = NoRateLimit
    /\ stored = {}
    /\ repoSize = NoSize
    /\ watchdog = "unset"
    /\ entrySignal = FALSE

Init == source = "small" /\ AllIdle
WideInit == source = "wide" /\ AllIdle

\* fetchGitHubContents(url, options, signal) up to its first await
BeginBuild(E) ==
    /\ builds' = builds + 1
    /\ prev' = [options |-> options, outcome |-> outcome, writes |-> writes]
    /\ options' = E
    /\ aborted' = FALSE
    /\ fr' = [key \in FrameKeys |-> NoFrame]
    /\ calls' = [site \in Sites |-> IF site = <<"quota", "rateLimit">> THEN 1 ELSE 0]
    /\ rateLimit' = NoRateLimit
    /\ repoSize' = NoSize
    /\ watchdog' = "armed"
    /\ totalFiles' = 0
    /\ processedFiles' = 0
    /\ outcome' = NoOutcome
    /\ writes' = {}
    /\ thrown' = {}
    /\ startedAt' = now
    /\ pc' = "rateLimit"
    /\ UNCHANGED <<apiCache, now, faults, stored, source, wrVars, localVars, urlVars>>

\* the first build of a run
StartBuild(E) ==
    /\ pc = "idle"
    /\ lpc = "idle"
    /\ entrySignal' = FALSE
    /\ BeginBuild(E)

\* a further build, once the one before has settled
Rebuild(E) ==
    /\ Settled
    /\ builds < MaxBuilds
    /\ entrySignal' = FALSE
    /\ BeginBuild(E)

\* the if at the head of fetchGitHubContents
NeverAborted(signal) == FALSE
AlreadyAborted(signal) == signal = "aborted"

\* fetchGitHubContents(url, options, signal) with a signal that has fired
\* before the call: the throw at the head, outside the try block
StartAborted(E) ==
    /\ pc = "idle"
    /\ lpc = "idle"
    /\ entrySignal' = TRUE
    /\ IF AlreadyAborted("aborted")
         THEN /\ aborted' = TRUE
              /\ options' = E
              /\ builds' = builds + 1
              /\ pc' = "rejected"
              /\ outcome' = Rejected(NewError(MsgCancelled))
              /\ UNCHANGED <<apiCache, now, fr, calls, totalFiles, processedFiles, faults, writes,
                             thrown, startedAt, prev, rateLimit, stored, repoSize, watchdog,
                             source, wrVars, localVars, urlVars>>
         ELSE BeginBuild(E)

\* octokit.rest.rateLimit.get() answers
RateLimitAnswers(remaining) ==
    /\ pc = "rateLimit"
    /\ rateLimit' = RateLimitData(remaining)
    /\ IF remaining = 0
         THEN Reject(BuildCatch(QuotaCatch(NewError(MsgQuotaZero)), aborted))
         ELSE /\ pc' = "repoAccess"
              /\ calls' = [calls EXCEPT ![<<"quota", "repoAccess">>] = @ + 1]
              /\ UNCHANGED <<fr, apiCache, processedFiles, writes, thrown, totalFiles, outcome,
                             stored, watchdog>>
    /\ UNCHANGED <<now, options, aborted, builds, faults, startedAt, prev, repoSize, entrySignal, source, wrVars, localVars, urlVars>>

\* octokit.rest.repos.get() of the access check answers
RepoAccessAnswers ==
    /\ pc = "repoAccess"
    /\ pc' = "repoSize"
    /\ calls' = [calls EXCEPT ![<<"quota", "repoSize">>] = @ + 1]
    /\ UNCHANGED <<fr, apiCache, processedFiles, writes, thrown, totalFiles, outcome, stored,
                   watchdog>>
    /\ UNCHANGED <<now, options, aborted, builds, faults, startedAt, prev, rateLimit, repoSize, entrySignal, source, wrVars, localVars, urlVars>>

\* the rate-limit query or the access check fails
QuotaCallFails(e) ==
    /\ pc \in {"rateLimit", "repoAccess"}
    /\ faults < MaxFaults
    /\ faults' = faults + 1
    /\ rateLimit' = IF pc = "rateLimit" THEN RateLimitError(e) ELSE rateLimit
    /\ Reject(BuildCatch(QuotaCatch(e), aborted))
    /\ UNCHANGED <<now, options, aborted, builds, startedAt, prev, repoSize, entrySignal, source, wrVars, localVars, urlVars>>

\* checkRepositorySize answers with the repository size in KB
RepoSizeAnswers(size) ==
    /\ pc = "repoSize"
    /\ repoSize' = checkRepositorySize(size)
    /\ IF TooLarge(checkRepositorySize(size))
         THEN Reject(BuildCatch(QuotaCatch(NewError(MsgTooLarge)), aborted))
         ELSE Commit(Finish(EnterDir(Bundle, "count", Root, aborted), "count", aborted, 0))
    /\ UNCHANGED <<now, options, aborted, builds, faults, startedAt, prev, rateLimit, entrySignal, source, wrVars, localVars, urlVars>>

\* checkRepositorySize fails: logged, the build goes on
RepoSizeFails(e) ==
    /\ pc = "repoSize"
    /\ faults < MaxFaults
    /\ faults' = faults + 1
    /\ repoSize' = checkRepositorySizeCatch
    /\ Commit(Finish(EnterDir(Bundle, "count", Root, aborted), "count", aborted, 0))
    /\ UNCHANGED <<now, options, aborted, builds, startedAt, prev, rateLimit, entrySignal, source, wrVars, localVars, urlVars>>

ListingAnswers(key) ==
    /\ Traversing
    /\ fr[key].st = "call"
    /\ Commit(Finish(StartBatch(Bundle, key, 0, aborted), pc, aborted, totalFiles))
    /\ UNCHANGED <<now, options, aborted, builds, faults, startedAt, prev, rateLimit, repoSize, entrySignal, source, wrVars, localVars, urlVars>>

ListingFails(key, e) ==
    /\ Traversing
    /\ fr[key].st = "call"
    /\ faults < MaxFaults
    /\ faults' = faults + 1
    /\ Commit(Finish(ListingFailed(Bundle, key, e, aborted), pc, aborted, totalFiles))
    /\ UNCHANGED <<now, options, aborted, builds, startedAt, prev, rateLimit, repoSize, entrySignal, source, wrVars, localVars, urlVars>>

\* the GITHUB_TIMEOUT timer of a listing call fires first
ListingTimesOut(key) ==
    /\ Traversing
    /\ fr[key].st = "call"
    /\ faults < MaxFaults
    /\ faults' = faults + 1
    /\ Commit(Finish(ListingFailed(Bundle, key, TimeoutRejection, aborted), pc, aborted, totalFiles))
    /\ UNCHANGED <<now, options, aborted, builds, startedAt, prev, rateLimit, repoSize, entrySignal, source, wrVars, localVars, urlVars>>

\* delay(backoffDelay) of a listing call elapses
ListingBackoffElapsed(key) ==
    /\ Traversing
    /\ fr[key].st = "backoff"
    /\ Commit(Finish(ListingRetry(Bundle, key, aborted), pc, aborted, totalFiles))
    /\ UNCHANGED <<now, options, aborted, builds, faults, startedAt, prev, rateLimit, repoSize, entrySignal, source, wrVars, localVars, urlVars>>

ContentAnswers(key, j) ==
    /\ Traversing
    /\ fr[key].st = "batch"
    /\ j \in 1..Len(fr[key].items)
    /\ fr[key].items[j].st = "call"
    /\ Commit(Finish(ContentAnswered(Bundle, key, j), pc, aborted, totalFiles))
    /\ UNCHANGED <<now, options, aborted, builds, faults, startedAt, prev, rateLimit, repoSize, entrySignal, source, wrVars, localVars, urlVars>>

ContentFails(key, j, e) ==
    /\ Traversing
    /\ fr[key].st = "batch"
    /\ j \in 1..Len(fr[key].items)
    /\ fr[key].items[j].st = "call"
    /\ faults < MaxFaults
    /\ faults' = faults + 1
    /\ Commit(Finish(ContentFailed(Bundle, key, j, e, aborted), pc, aborted, totalFiles))
    /\ UNCHANGED <<now, options, aborted, builds, startedAt, prev, rateLimit, repoSize, entrySignal, source, wrVars, localVars, urlVars>>

ContentTimesOut(key, j) ==
    /\ Traversing
    /\ fr[key].st = "batch"
    /\ j \in 1..Len(fr[key].items)
    /\ fr[key].items[j].st = "call"
    /\ faults < MaxFaults
    /\ faults' = faults + 1
    /\ Commit(Finish(ContentFailed(Bundle, key, j, TimeoutRejection, aborted), pc, aborted, totalFiles))
    /\ UNCHANGED <<now, options, aborted, builds, startedAt, prev, rateLimit, repoSize, entrySignal, source, wrVars, localVars, urlVars>>

ContentBackoffElapsed(key, j) ==
    /\ Traversing
    /\ fr[key].st = "batch"
    /\ j \in 1..Len(fr[key].items)
    /\ fr[key].items[j].st = "backoff"
    /\ Commit(Finish(ContentRetry(Bundle, key, j, aborted), pc, aborted, totalFiles))
    /\ UNCHANGED <<now, options, aborted, builds, faults, startedAt, prev, rateLimit, repoSize, entrySignal, source, wrVars, localVars, urlVars>>

\* the delay(100) after a batch elapses: the next round of the loop
PauseElapsed(key) ==
    /\ Traversing
    /\ fr[key].st = "pause"
    /\ Commit(Finish(StartBatch(Bundle, key, fr[key].i + BATCH_SIZE, aborted), pc, aborted, totalFiles))
    /\ UNCHANGED <<now, options, aborted, builds, faults, startedAt, prev, rateLimit, repoSize, entrySignal, source, wrVars, localVars, urlVars>>

\* the external signal or the OVERALL_TIMEOUT watchdog aborts the controller
Abort ==
    /\ pc \notin {"idle", "resolved", "rejected"}
    /\ ~aborted
    /\ aborted' = TRUE
    /\ IF Traversing
         THEN Commit(Finish(AbortFrames(Bundle, FrameOrder), pc, TRUE, totalFiles))
         ELSE Reject(BuildCatch(QuotaCatch(ErrAbort), TRUE))
    /\ UNCHANGED <<now, options, builds, faults, startedAt, prev, rateLimit, repoSize, entrySignal, source, wrVars, localVars, urlVars>>

\* time passes between builds and while the quota query is in flight
Tick ==
    /\ pc \in {"resolved", "rejected", "rateLimit"}
    /\ now < MaxTicks * TickMs
    /\ now' = now + TickMs
    /\ UNCHANGED <<apiCache, pc, options, aborted, fr, calls, totalFiles, processedFiles,
                   outcome, builds, faults, writes, thrown, startedAt, prev, rateLimit, stored,
                   repoSize, watchdog, entrySignal, source, wrVars, localVars, urlVars>>

\* the builders on their own: App does not take part
NoApp == UNCHANGED <<appVars, maxDepth>>

\* one remote build from an empty cache; calls may fail or never answer
Next ==
    \/ \E E \in ExclusionSets : StartBuild(E) /\ NoApp
    \/ \E remaining \in {0, 49, 5000} : RateLimitAnswers(remaining) /\ NoApp
    \/ RepoAccessAnswers /\ NoApp
    \/ \E e \in CallFailures : QuotaCallFails(e) /\ NoApp
    \/ \E size \in {1024, 600 * 1024} : RepoSizeAnswers(size) /\ NoApp
    \/ \E e \in CallFailures : RepoSizeFails(e) /\ NoApp
    \/ \E key \in FrameKeys : ListingAnswers(key) /\ NoApp
    \/ \E key \in FrameKeys, e \in CallFailures : ListingFails(key, e) /\ NoApp
    \/ \E key \in FrameKeys : ListingTimesOut(key) /\ NoApp
    \/ \E key \in FrameKeys : ListingBackoffElapsed(key) /\ NoApp
    \/ \E key \in FrameKeys, j \in 1..BATCH_SIZE : ContentAnswers(key, j) /\ NoApp
    \/ \E key \in FrameKeys, j \in 1..BATCH_SIZE, e \in CallFailures : ContentFails(key, j, e) /\ NoApp
    \/ \E key \in FrameKeys, j \in 1..BATCH_SIZE : ContentTimesOut(key, j) /\ NoApp
    \/ \E key \in FrameKeys, j \in 1..BATCH_SIZE : ContentBackoffElapsed(key, j) /\ NoApp
    \/ \E key \in FrameKeys : PauseElapsed(key) /\ NoApp
    \/ Abort /\ NoApp
    \/ \E E \in ExclusionSets : StartAborted(E) /\ NoApp
    \/ \E E \in ExclusionSets, supported \in BOOLEAN, preAborted \in BOOLEAN :
          StartLocal(E, supported, preAborted) /\ NoApp
    \/ PickerAnswers /\ NoApp
    \/ \E e \in {ErrPickerAbort, ErrSecurity, ErrNotReadable} : PickerFails(e) /\ NoApp
    \/ \E p \in DirPaths : LocalListingAnswers(p) /\ NoApp
    \/ \E p \in DirPaths, e \in HandleFailures : LocalListingFails(p, e) /\ NoApp
    \/ \E p \in DirPaths, j \in 1..LOCAL_BATCH_SIZE : FileAnswers(p, j) /\ NoApp
    \/ \E p \in DirPaths, j \in 1..LOCAL_BATCH_SIZE, e \in HandleFailures : FileFails(p, j, e) /\ NoApp
    \/ \E p \in DirPaths, j \in 1..LOCAL_BATCH_SIZE : HandleAnswers(p, j) /\ NoApp
    \/ \E p \in DirPaths, j \in 1..LOCAL_BATCH_SIZE, e \in HandleFailures : HandleFails(p, j, e) /\ NoApp
    \/ \E p \in DirPaths : LocalPauseElapsed(p) /\ NoApp
    \/ LocalAbort /\ NoApp

Spec == Init /\ [][Next]_vars

\* builds one after the other against the shared cache; every call answers
CacheNext ==
    \/ \E E \in ExclusionSets : StartBuild(E) /\ NoApp
    \/ \E E \in ExclusionSets : Rebuild(E) /\ NoApp
    \/ \E remaining \in {0, 49, 5000} : RateLimitAnswers(remaining) /\ NoApp
    \/ RepoAccessAnswers /\ NoApp
    \/ \E size \in {1024, 600 * 1024} : RepoSizeAnswers(size) /\ NoApp
    \/ \E key \in FrameKeys : ListingAnswers(key) /\ NoApp
    \/ \E key \in FrameKeys, j \in 1..BATCH_SIZE : ContentAnswers(key, j) /\ NoApp
    \/ \E key \in FrameKeys : PauseElapsed(key) /\ NoApp
    \/ Abort /\ NoApp
    \/ Tick /\ NoApp

CacheSpec == Init /\ [][CacheNext]_vars

\* the timer of a pause between two groups runs while the build waits for
\* it: BATCH_PAUSE milliseconds pass
PauseRuns ==
    /\ Traversing
    /\ \E key \in FrameKeys : fr[key].st = "pause"
    /\ now % TickMs = 0
    /\ now' = now + BATCH_PAUSE
    /\ UNCHANGED <<apiCache, pc, options, aborted, fr, calls, totalFiles, processedFiles,
                   outcome, builds, faults, writes, thrown, startedAt, prev, rateLimit, stored,
                   repoSize, watchdog, entrySignal, source, wrVars, localVars, urlVars>>

\* builds one after the other against the shared cache, with the time the
\* pauses of a build take
TtlNext ==
    \/ \E E \in ExclusionSets : StartBuild(E) /\ NoApp
    \/ \E E \in ExclusionSets : Rebuild(E) /\ NoApp
    \/ RateLimitAnswers(5000) /\ NoApp
    \/ RepoAccessAnswers /\ NoApp
    \/ RepoSizeAnswers(1024) /\ NoApp
    \/ \E key \in FrameKeys : ListingAnswers(key) /\ NoApp
    \/ \E key \in FrameKeys, j \in 1..BATCH_SIZE : ContentAnswers(key, j) /\ NoApp
    \/ \E key \in FrameKeys : PauseElapsed(key) /\ NoApp
    \/ Abort /\ NoApp
    \/ Tick /\ NoApp
    \/ PauseRuns /\ NoApp

TtlSpec == Init /\ [][TtlNext]_vars

\* what a remote call that does not answer ends with: a failure that
\* withRetry retries, or the rejection of the GITHUB_TIMEOUT timer the call
\* races against
CallEndings == {ErrTransient, TimeoutRejection}

\* a quota or access query ends without an answer, any number of times
QuotaCallRejects(e) ==
    /\ pc \in {"rateLimit", "repoAccess"}
    /\ rateLimit' = IF pc = "rateLimit" THEN RateLimitError(e) ELSE rateLimit
    /\ Reject(BuildCatch(QuotaCatch(e), aborted))
    /\ UNCHANGED <<now, options, aborted, builds, faults, startedAt, prev, repoSize, entrySignal,
                   source, wrVars, localVars, urlVars>>

RepoSizeRejects ==
    /\ pc = "repoSize"
    /\ repoSize' = checkRepositorySizeCatch
    /\ Commit(Finish(EnterDir(Bundle, "count", Root, aborted), "count", aborted, 0))
    /\ UNCHANGED <<now, options, aborted, builds, faults, startedAt, prev, rateLimit, entrySignal,
                   source, wrVars, localVars, urlVars>>

\* a listing call ends without an answer, any number of times
ListingRejects(key, e) ==
    /\ Traversing
    /\ fr[key].st = "call"
    /\ Commit(Finish(ListingFailed(Bundle, key, e, aborted), pc, aborted, totalFiles))
    /\ UNCHANGED <<now, options, aborted, builds, faults, startedAt, prev, rateLimit, repoSize,
                   entrySignal, source, wrVars, localVars, urlVars>>

\* a content call ends without an answer, any number of times
ContentRejects(key, j, e) ==
    /\ Traversing
    /\ fr[key].st = "batch"
    /\ j \in 1..Len(fr[key].items)
    /\ fr[key].items[j].st = "call"
    /\ Commit(Finish(ContentFailed(Bundle, key, j, e, aborted), pc, aborted, totalFiles))
    /\ UNCHANGED <<now, options, aborted, builds, faults, startedAt, prev, rateLimit, repoSize,
                   entrySignal, source, wrVars, localVars, urlVars>>

\* what the event loop brings about for a build in flight: every remote
\* call ends, with an answer, a failure or the rejection of its timer, and
\* every delay elapses
BuildProceeds ==
    \/ \E remaining \in {0, 5000} : RateLimitAnswers(remaining) /\ NoApp
    \/ RepoAccessAnswers /\ NoApp
    \/ QuotaCallRejects(ErrTransient) /\ NoApp
    \/ RepoSizeAnswers(1024) /\ NoApp
    \/ RepoSizeRejects /\ NoApp
    \/ \E key \in FrameKeys : ListingAnswers(key) /\ NoApp
    \/ \E key \in FrameKeys, e \in CallEndings : ListingRejects(key, e) /\ NoApp
    \/ \E key \in FrameKeys : ListingBackoffElapsed(key) /\ NoApp
    \/ \E key \in FrameKeys, j \in 1..BATCH_SIZE : ContentAnswers(key, j) /\ NoApp
    \/ \E key \in FrameKeys, j \in 1..BATCH_SIZE, e \in CallEndings :
           ContentRejects(key, j, e) /\ NoApp
    \/ \E key \in FrameKeys, j \in 1..BATCH_SIZE : ContentBackoffElapsed(key, j) /\ NoApp
    \/ \E key \in FrameKeys : PauseElapsed(key) /\ NoApp

\* one remote build, node_modules excluded, in which any remote call, any
\* number of times, answers, fails or never answers, and the token may be
\* signalled at any moment
LiveNext ==
    \/ StartBuild({"node_modules"}) /\ NoApp
    \/ Abort /\ NoApp
    \/ BuildProceeds

\* where the build stands: every step of BuildProceeds changes it
BuildPosition ==
    <<pc, calls,
      [key \in FrameKeys |->
          <<fr[key].st, fr[key].i, fr[key].retries, Len(fr[key].results),
            [j \in 1..Len(fr[key].items) |->
                <<fr[key].items[j].st, fr[key].items[j].retries>>]>>]>>

LiveSpec == Init /\ [][LiveNext]_vars /\ WF_BuildPosition(BuildProceeds)

\* one build of the wide repository; every call answers
WideNext ==
    \/ \E E \in ExclusionSets : StartBuild(E) /\ NoApp
    \/ \E remaining \in {0, 49, 5000} : RateLimitAnswers(remaining) /\ NoApp
    \/ RepoAccessAnswers /\ NoApp
    \/ \E size \in {1024, 600 * 1024} : RepoSizeAnswers(size) /\ NoApp
    \/ \E key \in FrameKeys : ListingAnswers(key) /\ NoApp
    \/ \E key \in FrameKeys : PauseElapsed(key) /\ NoApp

WideSpec == WideInit /\ [][WideNext]_vars

\* listings of more than one batch, with the token signalled at any moment:
\* a remote build of the wide repository, and a local build of the long
\* directory whose subdirectories are all on the exclusion list
BarrierInit == source \in {"wide", "long"} /\ AllIdle

BarrierNext ==
    \/ source = "wide" /\ StartBuild({}) /\ NoApp
    \/ RateLimitAnswers(5000) /\ NoApp
    \/ RepoAccessAnswers /\ NoApp
    \/ RepoSizeAnswers(1024) /\ NoApp
    \/ \E key \in FrameKeys : ListingAnswers(key) /\ NoApp
    \/ \E key \in FrameKeys : PauseElapsed(key) /\ NoApp
    \/ Abort /\ NoApp
    \/ source = "long" /\ StartLocal(LongExcluded, TRUE, FALSE) /\ NoApp
    \/ PickerAnswers /\ NoApp
    \/ \E p \in DirPaths : LocalListingAnswers(p) /\ NoApp
    \/ \E p \in DirPaths, j \in 1..LOCAL_BATCH_SIZE : FileAnswers(p, j) /\ NoApp
    \/ \E p \in DirPaths : LocalPauseElapsed(p) /\ NoApp
    \/ LocalAbort /\ NoApp

BarrierSpec == BarrierInit /\ [][BarrierNext]_vars

\* a build of the wide repository in which the listing of a directory of
\* the first or of the second group of d1 may fail in the fetch pass, and
\* the token may be signalled at any moment
FailingKeys ==
    {<<"fetch", WideSub("d1", 1).path>>, <<"fetch", WideSub("d1", BATCH_SIZE + 1).path>>}

IsolationNext ==
    \/ StartBuild({}) /\ NoApp
    \/ RateLimitAnswers(5000) /\ NoApp
    \/ RepoAccessAnswers /\ NoApp
    \/ RepoSizeAnswers(1024) /\ NoApp
    \/ \E key \in FrameKeys : ListingAnswers(key) /\ NoApp
    \/ \E key \in FailingKeys : ListingFails(key, ErrRateLimit) /\ NoApp
    \/ \E key \in FailingKeys : ListingTimesOut(key) /\ NoApp
    \/ \E key \in FrameKeys : PauseElapsed(key) /\ NoApp
    \/ Abort /\ NoApp

IsolationSpec == WideInit /\ [][IsolationNext]_vars

\* one build for each reported repository size (in KB) around the two
\* thresholds of the size check; the calls of the traversal answer
ReportedSizes ==
    {1024, LARGE_REPO_MB * 1024, LARGE_REPO_MB * 1024 + 1, 200 * 1024,
     REFUSED_REPO_MB * 1024, REFUSED_REPO_MB * 1024 + 1}
SizeNext ==
    \/ \E E \in ExclusionSets : StartBuild(E) /\ NoApp
    \/ \E remaining \in {49, 5000} : RateLimitAnswers(remaining) /\ NoApp
    \/ RepoAccessAnswers /\ NoApp
    \/ \E size \in ReportedSizes : RepoSizeAnswers(size) /\ NoApp
    \/ \E e \in CallFailures : RepoSizeFails(e) /\ NoApp
    \/ \E key \in FrameKeys : ListingAnswers(key) /\ NoApp
    \/ \E key \in FrameKeys, j \in 1..BATCH_SIZE : ContentAnswers(key, j) /\ NoApp
    \/ \E key \in FrameKeys : PauseElapsed(key) /\ NoApp

SizeSpec == Init /\ [][SizeNext]_vars

(***************************************************************************)
(* withRetry on its own, for every script of the wrapped operation.        *)
(***************************************************************************)
BuildIdle ==
    /\ apiCache = EmptyCache
    /\ now = 0
    /\ pc = "idle"
    /\ options = {}
    /\ aborted = FALSE
    /\ fr = [key \in FrameKeys |-> NoFrame]
    /\ calls = [site \in Sites |-> 0]
    /\ totalFiles = 0
    /\ processedFiles = 0
    /\ outcome = NoOutcome
    /\ builds = 0
    /\ faults = 0
    /\ writes = {}
    /\ thrown = {}
    /\ startedAt = 0
    /\ prev = [options |-> {}, outcome |-> NoOutcome, writes |-> {}]
    /\ rateLimit = NoRateLimit
    /\ stored = {}
    /\ repoSize = NoSize
    /\ watchdog = "unset"
    /\ entrySignal = FALSE

RetryInit ==
    /\ source = "small"
    /\ AppIdle
    /\ maxDepth = DEFAULT_MAX_DEPTH
    /\ UrlIdle
    /\ BuildIdle
    /\ LocalIdle
    /\ wrScript \in [1..MaxAttempts -> AttemptOutcomes]
    /\ wrState = "idle"
    /\ wrRetries = 0
    /\ wrCalls = 0
    /\ wrAborted = FALSE
    /\ wrResult = Null
    /\ wrOnRetry = <<>>
    /\ wrWaited = <<>>

RetryRest == UNCHANGED <<buildVars, localVars, urlVars, appVars, maxDepth>>
RetryNext ==
    \/ WrStart /\ RetryRest
    \/ WrAnswer /\ RetryRest
    \/ WrTimeout /\ RetryRest
    \/ WrBackoffElapsed /\ RetryRest
    \/ WrAbort /\ RetryRest

RetrySpec == RetryInit /\ [][RetryNext]_vars

(***************************************************************************)
(* Calls entered with a token that may have been signalled before: one     *)
(* withRetry call for every script, and the head of fetchGitHubContents.   *)
(***************************************************************************)
EntryInit ==
    /\ source = "small"
    /\ AppIdle
    /\ maxDepth = DEFAULT_MAX_DEPTH
    /\ UrlIdle
    /\ BuildIdle
    /\ LocalIdle
    /\ wrScript \in [1..MaxAttempts -> AttemptOutcomes]
    /\ wrState = "idle"
    /\ wrRetries = 0
    /\ wrCalls = 0
    /\ wrAborted \in BOOLEAN
    /\ wrResult = Null
    /\ wrOnRetry = <<>>
    /\ wrWaited = <<>>

EntryNext ==
    \/ WrStart /\ RetryRest
    \/ WrAnswer /\ RetryRest
    \/ WrTimeout /\ RetryRest
    \/ WrBackoffElapsed /\ RetryRest
    \/ WrAbort /\ RetryRest
    \/ \E E \in ExclusionSets : StartBuild(E) /\ NoApp
    \/ \E E \in ExclusionSets : StartAborted(E) /\ NoApp

EntrySpec == EntryInit /\ [][EntryNext]_vars

(***************************************************************************)
(* parseGitHubUrl on its own, for every reference of up to MaxSegments     *)
(* segments.                                                               *)
(***************************************************************************)
MaxSegments == 5
Schemes == {<<>>, <<"https://">>}
Hosts == {GitHubHost, "gitlab.com"}
Segments == {<<>>, <<"a">>, <<"tree">>, <<"r", DotGit>>, <<"user", DotGit, "hub.io">>}
References ==
    [scheme : Schemes, host : Hosts,
     segs : UNION {[1..n -> Segments] : n \in 0..MaxSegments}]

UrlInit ==
    /\ source = "small"
    /\ AppIdle
    /\ maxDepth = DEFAULT_MAX_DEPTH
    /\ WrIdle
    /\ LocalIdle
    /\ BuildIdle
    /\ reference \in References
    /\ parsed = NotParsed

ParseGitHubUrl ==
    /\ parsed = NotParsed
    /\ parsed' = parseGitHubUrl(Render(reference))
    /\ UNCHANGED <<reference, wrVars, buildVars, localVars, appVars, maxDepth>>

UrlNext == ParseGitHubUrl

UrlSpec == UrlInit /\ [][UrlNext]_vars


(***************************************************************************)
(* One remote or local build for each configured maximum depth; every call *)
(* answers.                                                                *)
(***************************************************************************)
MaxDepths == {1, 2, DEFAULT_MAX_DEPTH}

DepthInit ==
    /\ source = "small"
    /\ WrIdle
    /\ UrlIdle
    /\ LocalIdle
    /\ AppIdle
    /\ BuildIdle
    /\ maxDepth \in MaxDepths

DepthNext ==
    \/ \E E \in ExclusionSets : StartBuild(E) /\ NoApp
    \/ \E remaining \in {49, 5000} : RateLimitAnswers(remaining) /\ NoApp
    \/ RepoAccessAnswers /\ NoApp
    \/ RepoSizeAnswers(1024) /\ NoApp
    \/ \E key \in FrameKeys : ListingAnswers(key) /\ NoApp
    \/ \E key \in FrameKeys, j \in 1..BATCH_SIZE : ContentAnswers(key, j) /\ NoApp
    \/ \E key \in FrameKeys : PauseElapsed(key) /\ NoApp
    \/ \E E \in ExclusionSets : StartLocal(E, TRUE, FALSE) /\ NoApp
    \/ PickerAnswers /\ NoApp
    \/ \E p \in DirPaths : LocalListingAnswers(p) /\ NoApp
    \/ \E p \in DirPaths, j \in 1..LOCAL_BATCH_SIZE : FileAnswers(p, j) /\ NoApp
    \/ \E p \in DirPaths, j \in 1..LOCAL_BATCH_SIZE : HandleAnswers(p, j) /\ NoApp
    \/ \E p \in DirPaths : LocalPauseElapsed(p) /\ NoApp

DepthSpec == DepthInit /\ [][DepthNext]_vars

\* one build of the mixed source by either builder; every call answers
MixedInit == source = "mixed" /\ AllIdle

MixedNext ==
    \/ \E E \in ExclusionSets : StartBuild(E) /\ NoApp
    \/ \E remaining \in {49, 5000} : RateLimitAnswers(remaining) /\ NoApp
    \/ RepoAccessAnswers /\ NoApp
    \/ RepoSizeAnswers(1024) /\ NoApp
    \/ \E key \in FrameKeys : ListingAnswers(key) /\ NoApp
    \/ \E key \in FrameKeys, j \in 1..BATCH_SIZE : ContentAnswers(key, j) /\ NoApp
    \/ \E key \in FrameKeys : PauseElapsed(key) /\ NoApp
    \/ \E E \in ExclusionSets : StartLocal(E, TRUE, FALSE) /\ NoApp
    \/ PickerAnswers /\ NoApp
    \/ \E p \in DirPaths : LocalListingAnswers(p) /\ NoApp
    \/ \E p \in DirPaths, j \in 1..LOCAL_BATCH_SIZE : FileAnswers(p, j) /\ NoApp
    \/ \E p \in DirPaths, j \in 1..LOCAL_BATCH_SIZE : HandleAnswers(p, j) /\ NoApp
    \/ \E p \in DirPaths : LocalPauseElapsed(p) /\ NoApp

MixedSpec == MixedInit /\ [][MixedNext]_vars

\* one remote build of the mixed source in which the content calls may
\* fail or time out and the token may be signalled
ContentNext ==
    \/ \E E \in ExclusionSets : StartBuild(E) /\ NoApp
    \/ RateLimitAnswers(5000) /\ NoApp
    \/ RepoAccessAnswers /\ NoApp
    \/ RepoSizeAnswers(1024) /\ NoApp
    \/ \E key \in FrameKeys : ListingAnswers(key) /\ NoApp
    \/ \E key \in FrameKeys, j \in 1..BATCH_SIZE : ContentAnswers(key, j) /\ NoApp
    \/ \E key \in FrameKeys, j \in 1..BATCH_SIZE, e \in CallFailures :
           ContentFails(key, j, e) /\ NoApp
    \/ \E key \in FrameKeys, j \in 1..BATCH_SIZE : ContentTimesOut(key, j) /\ NoApp
    \/ \E key \in FrameKeys, j \in 1..BATCH_SIZE : ContentBackoffElapsed(key, j) /\ NoApp
    \/ \E key \in FrameKeys : PauseElapsed(key) /\ NoApp
    \/ Abort /\ NoApp

ContentSpec == MixedInit /\ [][ContentNext]_vars

(***************************************************************************)
(* App: handleDirectorySubmit and handleCancelProcessing around remote     *)
(* builds.  A handler closes over the processingStatus of the render it    *)
(* was created in; the state setters do not change that value.  An         *)
(* AbortController is known by whether it has been aborted: the form is    *)
(* disabled while isLoading, so a handler never closes over a controller   *)
(* that is aborted afterwards.                                             *)
(***************************************************************************)
\* the catch block of handleDirectorySubmit: no rejection of the builders is
\* named 'AbortError' unless the platform raised it
handleDirectorySubmitCatch(closed, error) ==
    IF error.name = "AbortError" THEN Status("idle", closed.abortController)
    ELSE IF IncludesTimedOut(error.message) THEN Status("timeout", closed.abortController)
    ELSE Status("error", closed.abortController)

BuildInFlight == pc \notin {"idle", "resolved", "rejected"}

\* handleDirectorySubmit({type: 'github'}) up to the await of fetchGitHubContents
handleDirectorySubmit(E) ==
    /\ ~isLoading
    /\ IF AlreadyAborted(processingStatus.abortController)
         THEN \* fetchGitHubContents rejects at once; catch and finally run
              /\ processingStatus' =
                     handleDirectorySubmitCatch(processingStatus, NewError(MsgCancelled))
              /\ isLoading' = FALSE
              /\ UNCHANGED <<appData, captured, cancelled, buildVars, wrVars, localVars, urlVars>>
         ELSE /\ pc = "idle" \/ (Settled /\ builds < MaxBuilds)
              /\ entrySignal' = FALSE
              /\ BeginBuild(E)
              /\ processingStatus' = Status("processing", "live")
              /\ isLoading' = TRUE
              /\ captured' = processingStatus
              /\ cancelled' = FALSE
              /\ UNCHANGED appData
    /\ UNCHANGED maxDepth

\* the rest of handleDirectorySubmit, once fetchGitHubContents has settled
AwaitSettled ==
    IF pc' = "resolved"
      THEN /\ appData' = Displayed(outcome'.tree)
           /\ processingStatus' = Status("complete", NoController)
           /\ isLoading' = FALSE
           /\ UNCHANGED <<captured, cancelled>>
    ELSE IF pc' = "rejected"
      THEN /\ processingStatus' = handleDirectorySubmitCatch(captured, outcome'.error)
           /\ isLoading' = FALSE
           /\ UNCHANGED <<appData, captured, cancelled>>
    ELSE UNCHANGED appVars

\* the cancel button of the progress bar, shown while the status is
\* 'processing': the controller of the state is aborted; the build in flight
\* was handed the signal its handler closed over, not this one
handleCancelProcessing ==
    /\ processingStatus.status = "processing"
    /\ processingStatus.abortController # NoController
    /\ processingStatus' = Status("idle", "aborted")
    /\ isLoading' = FALSE
    /\ cancelled' = BuildInFlight
    /\ UNCHANGED <<appData, captured, maxDepth, buildVars, wrVars, localVars, urlVars>>

\* a step of the build in flight and what handleDirectorySubmit does with it
Awaited == AwaitSettled /\ UNCHANGED maxDepth

AppNext ==
    \/ \E E \in ExclusionSets : handleDirectorySubmit(E)
    \/ handleCancelProcessing
    \/ \E remaining \in {0, 5000} : RateLimitAnswers(remaining) /\ Awaited
    \/ RepoAccessAnswers /\ Awaited
    \/ \E size \in {1024, 600 * 1024} : RepoSizeAnswers(size) /\ Awaited
    \/ \E key \in FrameKeys : ListingAnswers(key) /\ Awaited
    \/ \E key \in FrameKeys : ListingTimesOut(key) /\ Awaited
    \/ \E key \in FrameKeys, j \in 1..BATCH_SIZE : ContentAnswers(key, j) /\ Awaited
    \/ \E key \in FrameKeys : PauseElapsed(key) /\ Awaited
    \/ Abort /\ Awaited

AppSpec == Init /\ [][AppNext]_vars


(***************************************************************************)
(* Properties of the remote build                                          *)
(***************************************************************************)
RECURSIVE NodesOf(_)
NodesOf(node) ==
    {node} \cup
    (IF "children" \in DOMAIN node
       THEN UNION {NodesOf(node.children[k]) : k \in 1..Len(node.children)}
       ELSE {})

RejectedWith(message) == pc = "rejected" /\ outcome.error.message = message
CallsStarted == {site \in CallSites : calls[site] > 0}

\* C1: a build whose token was signalled before it settled rejects with
\* 'Operation cancelled by user' and never resolves with a tree.
C1_CancelRejects == (Settled /\ aborted) => RejectedWith(MsgCancelled)

\* C2: once the build's token is signalled, the build starts no further
\* directory-listing call and no further file-content call.
C2_NoCallAfterCancel == [][(aborted' /\ builds' = builds) => calls' = calls]_vars
C2_Witness ==
    /\ aborted
    /\ Traversing
    /\ CallsStarted # {}
    /\ \E key \in FrameKeys : fr[key].st = "backoff"

\* every entry the source lists for a directory node of the tree, and that is
\* not excluded, has a node among the children
Complete(tree) ==
    \A node \in NodesOf(tree) :
        node.type = "directory" =>
            \A k \in 1..Len(Listing(node.path)) :
                Listing(node.path)[k].name \notin options =>
                    \E c \in 1..Len(node.children) :
                        node.children[c].path = Listing(node.path)[k].path

\* C3: a tree that fetchGitHubContents resolves with lacks no entry of the
\* source other than the excluded ones.
C3_NoPartialTree == pc = "resolved" => Complete(outcome.tree)

\* NotFound, PermissionDenied, QuotaExceeded as withRetry hands them on
IsTerminal(e) == e.status \in {403, 404} \/ e.message = MsgRetryRateLimit

\* C4: when a listing call of a build that was not cancelled ended with a
\* terminal error, the build rejects.
C4_TerminalPropagates ==
    (Settled /\ ~aborted /\ \E e \in thrown : IsTerminal(e)) => pc = "rejected"

\* C5: the tree a build returns holds no node whose name is in the build's
\* exclusion set.
C5_ResultExcludes ==
    pc = "resolved" => \A node \in NodesOf(outcome.tree) : node.name \notin options

\* the entry of the source with this path, and the directories above it
EntryAt(path) ==
    LET d == ParentPath(path)
    IN Listing(d)[CHOOSE k \in 1..Len(Listing(d)) : Listing(d)[k].path = path]
RECURSIVE Ancestors(_)
Ancestors(path) ==
    IF path = Root THEN {} ELSE {ParentPath(path)} \cup Ancestors(ParentPath(path))
AtOrBeneath(path, d) == path = d \/ d \in Ancestors(path)
ExcludedDirs == {d \in DirPaths \ {Root} : EntryAt(d).name \in options}
Shielded(path) == \E d \in ExcludedDirs : AtOrBeneath(path, d)
CountedFiles(d) == {f \in FilePaths : AtOrBeneath(f, d) /\ ~Shielded(f)}

C6_LocalWitness ==
    /\ options = {"node_modules"}
    /\ lpc = "resolved"
    /\ <<"values", "src">> \in lops
    /\ <<"getFileHandle", "src/big.md">> \in lops

NoCalls(c) == \A site \in CallSites : c[site] = 0
SameAsBefore == prev.outcome.kind = "tree" /\ prev.options = options
\* the cache holds an entry for the key, written no longer than the TTL ago
Fresh(cache, key, t) == key \in DOMAIN cache /\ t - cache[key].timestamp <= CACHE_TTL

\* C7 as stated: a build that starts within the TTL of the cache writes of the
\* build before it, with the same options, and returns after that one returned,
\* returns the same tree and starts no listing and no content call.
C7_StartWithinTtl ==
    (/\ builds >= 2
     /\ pc = "resolved"
     /\ SameAsBefore
     /\ \A t \in prev.writes : startedAt - t <= CACHE_TTL)
    => (outcome.tree = prev.outcome.tree /\ NoCalls(calls))

\* C7, amended: when the build before has returned a tree for the same options
\* and, at the moment the build's traversal begins, the cache entries of the
\* root count and the root listing are no older than the TTL, the build, if it
\* returns, returns the same tree in that same step and starts no listing and
\* no content call.
C7_CachedRebuild ==
    [][(/\ pc = "repoSize"
        /\ pc' \notin {"repoSize", "rejected"}
        /\ SameAsBefore
        /\ Fresh(apiCache, CacheKey("count", Root), now)
        /\ Fresh(apiCache, CacheKey("dir", Root), now))
       => (/\ pc' = "resolved"
           /\ outcome'.tree = prev.outcome.tree
           /\ NoCalls(calls'))]_vars

\* a second build, started a full TTL after the first wrote its entries, has
\* returned the first build's tree without a call
C7_Witness ==
    /\ builds >= 2
    /\ pc = "resolved"
    /\ SameAsBefore
    /\ prev.writes # {}
    /\ Complete(prev.outcome.tree)
    /\ startedAt = CACHE_TTL
    /\ now = startedAt
    /\ outcome.tree = prev.outcome.tree
    /\ NoCalls(calls)

WrSettled == wrState \in {"resolved", "rejected"}
Scripted(k, outcomes) == Len(wrScript) >= k /\ wrScript[k] \in outcomes
\* the conditions the claims call retryable: a generic transient failure, or
\* the wrapped operation not answering before the per-call timeout
Retryable == {Fails(ErrTransient), Hangs}

C10_TerminalNotRetried ==
    (/\ Len(wrScript) >= 1
     /\ wrScript[1].kind = "fail"
     /\ IsTerminal(wrScript[1].err)
     /\ wrCalls >= 1
     /\ ~(wrCalls = 1 /\ wrState = "inflight"))
    => (wrCalls = 1 /\ wrState = "rejected" /\ wrWaited = <<>>)

\* C11: when the rate-limit query has reported remaining = 0, the build has
\* rejected with the 'rate limit exceeded. Reset at ...' error and has started
\* no call but the rate-limit query: no access check, no listing, no content.
C11_QuotaExhausted ==
    (rateLimit.kind = "data" /\ rateLimit.remaining = 0)
    => /\ RejectedWith(MsgQuotaZero)
       /\ \A site \in Sites \ {<<"quota", "rateLimit">>} : calls[site] = 0

\* the rate-limit query of a build has answered remaining = 0
C11_Witness ==
    /\ builds = 1
    /\ rateLimit = RateLimitData(0)
    /\ calls[<<"quota", "rateLimit">>] = 1
    /\ pc = "rejected"

\* C12: a build whose rate-limit query failed (not with a 404) and whose
\* token was not signalled does not reject on that account: if it has rejected,
\* it had gone on to start a further call after the query.
C12_QuotaBestEffort ==
    (/\ rateLimit.kind = "error"
     /\ rateLimit.error.status # 404
     /\ ~aborted
     /\ pc = "rejected")
    => \E site \in Sites \ {<<"quota", "rateLimit">>} : calls[site] > 0

\* C13: once the count pass of a build has set the total, and as long as no
\* call has failed, the processed counter does not exceed the total.  (That the
\* counter never decreases within a build is C13_Monotonic.)
C13_ProcessedWithinTotal ==
    (pc \in {"fetch", "resolved"} /\ faults = 0) => processedFiles <= totalFiles

C13_Monotonic == [][builds' = builds => processedFiles' >= processedFiles]_vars

\* the remote calls of the build that have been started and have not settled:
\* the quota-phase call, the listing calls and the content calls
ListingsInFlight == {key \in FrameKeys : fr[key].st = "call"}
ContentsInFlight ==
    {<<key, j>> \in FrameKeys \X (1..BATCH_SIZE) :
        fr[key].st = "batch" /\ j <= Len(fr[key].items) /\ fr[key].items[j].st = "call"}
InFlight ==
    Cardinality(ListingsInFlight) + Cardinality(ContentsInFlight)
    + (IF pc \in {"rateLimit", "repoAccess", "repoSize"} THEN 1 ELSE 0)

\* C14: at every moment of a remote build at most BATCH_SIZE remote calls have
\* been started and have not yet settled.
C14_BoundedConcurrency == InFlight <= BATCH_SIZE

\* a name less its trailing '.git'
RemoveTrailingDotGit(name) ==
    IF name # <<>> /\ name[Len(name)] = DotGit THEN SubSeq(name, 1, Len(name) - 1) ELSE name

\* a reference of the form host/owner/repo[/tree/branch][/subpath], and the
\* sub-path that follows the optional /tree/branch part
MatchesPattern(ref) ==
    /\ ref.host = GitHubHost
    /\ Len(ref.segs) >= 2
    /\ ref.segs[1] # <<>>
    /\ ref.segs[2] # <<>>
SubPathOf(ref) ==
    LET segs == ref.segs
        rest == IF Len(segs) >= 4 /\ segs[3] = <<"tree">> /\ segs[4] # <<>>
                  THEN SubSeq(segs, 5, Len(segs))
                  ELSE SubSeq(segs, 3, Len(segs))
    IN IF rest = <<>> THEN <<>> ELSE Tail(JoinSegments(rest))

\* C15: for a reference of the form host/owner/repo[/tree/branch][/subpath],
\* parseGitHubUrl returns the owner segment, the repository segment (less a
\* trailing '.git') and the sub-path after the optional /tree/branch part;
\* for any other reference it rejects with the invalid-format error.
C15_LocatorExact ==
    parsed # NotParsed
    => parsed = IF MatchesPattern(reference)
                  THEN Located(reference.segs[1],
                               RemoveTrailingDotGit(reference.segs[2]),
                               SubPathOf(reference))
                  ELSE InvalidInput

\* C16: the repository name parseGitHubUrl returns is the repository segment
\* with '.git' removed only where it is the trailing suffix.
C16_TrailingDotGitOnly ==
    (parsed.kind = "ok" /\ MatchesPattern(reference))
    => parsed.repo = RemoveTrailingDotGit(reference.segs[2])

\* C15 apart from the repository name: held against the code's own replace
C15_ExactButForRepo ==
    parsed # NotParsed
    => parsed = IF MatchesPattern(reference)
                  THEN Located(reference.segs[1],
                               ReplaceFirstDotGit(reference.segs[2]),
                               SubPathOf(reference))
                  ELSE InvalidInput

\* every key the builds use, and the moments at which a lookup is tried
CacheKeys ==
    {CacheKey(ns, d) : ns \in {"count", "dir"}, d \in DirPaths}
    \cup {CacheKey("content", f) : f \in FilePaths}
ProbeTimes == {now, now + 1, now + CACHE_TTL - 1, now + CACHE_TTL, now + CACHE_TTL + 1}
Without(cache, key) == [k \in DOMAIN cache \ {key} |-> cache[k]]

\* C17: getCachedResponse(key) at time t returns the stored value, and leaves
\* the cache alone, exactly when an entry for key exists and t - storedAt is at
\* most CACHE_TTL; otherwise it reports absent, the cache afterwards holds no
\* entry for key (and every other entry as before), and a later lookup of the
\* key with no write in between reports absent again.
C17_CacheExpiry ==
    \A key \in CacheKeys, t \in ProbeTimes :
        LET g == getCachedResponse(apiCache, key, t)
        IN IF key \in DOMAIN apiCache /\ t - apiCache[key].timestamp <= CACHE_TTL
             THEN g.hit /\ g.data = apiCache[key].data /\ g.cache = apiCache
             ELSE /\ ~g.hit
                  /\ g.cache = Without(apiCache, key)
                  /\ \A t2 \in {t, t + 1, t + CACHE_TTL} :
                        ~getCachedResponse(g.cache, key, t2).hit

\* a second build has started two TTLs after the first stored the root count:
\* its lookup found the entry expired and removed it, and the other entries of
\* the first build are still there
C17_Witness ==
    /\ builds = 2
    /\ pc = "count"
    /\ now = 2 * CACHE_TTL
    /\ \E w \in stored : w.key = CacheKey("count", Root)
    /\ CacheKey("count", Root) \notin DOMAIN apiCache
    /\ CacheKey("dir", Root) \in DOMAIN apiCache

\* C18: any two writes to the same cache key store equal values, whichever
\* builds made them and with whichever options.
C18_IdempotentWrites ==
    \A w1 \in stored, w2 \in stored : w1.key = w2.key => w1.data = w2.data

\* C18 for builds with the same options only
C18_SameOptionsWrites ==
    \A w1 \in stored, w2 \in stored :
        (w1.key = w2.key /\ w1.options = w2.options) => w1.data = w2.data

\* C19: once the signal has fired, during an attempt or during the backoff
\* delay between attempts, withRetry has rejected with 'Operation cancelled by
\* user': it does not go on waiting.  (That it makes no further attempt after
\* the signal is C19_NoAttemptAfterCancel.)
C19_CancelEndsBackoff ==
    wrAborted => (wrState = "rejected" /\ wrResult = NewError(MsgCancelled))

C19_NoAttemptAfterCancel == [][wrAborted' => wrCalls' = wrCalls]_vars

\* the children of a tree node appear in the order in which the listing of
\* its directory d holds the entries of their names, and so down the tree
RECURSIVE InListingOrder(_, _)
IndexIn(d, name) == CHOOSE k \in 1..Len(Listing(d)) : Listing(d)[k].name = name
InListingOrder(node, d) ==
    LET ch == node.children
    IN /\ \A k \in 1..Len(ch) : \E i \in 1..Len(Listing(d)) : Listing(d)[i].name = ch[k].name
       /\ \A j \in 1..Len(ch), k \in 1..Len(ch) :
             j < k => IndexIn(d, ch[j].name) < IndexIn(d, ch[k].name)
       /\ \A k \in 1..Len(ch) :
             (ch[k].type = "directory" /\ "children" \in DOMAIN ch[k])
             => InListingOrder(ch[k], Listing(d)[IndexIn(d, ch[k].name)].path)

\* C20: in every directory node of a tree that a remote or a local build has
\* returned, the children stand in the relative order of the source listing.
C20_SiblingOrder ==
    /\ pc = "resolved" => InListingOrder(outcome.tree, Root)
    /\ lpc = "resolved" => InListingOrder(lOutcome.tree, Root)

\* a remote build has returned a tree whose root holds both entries of the
\* root listing, the directory and the file with its content, and whose
\* directory src holds its two entries
C20_Witness ==
    /\ pc = "resolved"
    /\ options = {}
    /\ Len(outcome.tree.children) = 2
    /\ outcome.tree.children[1].name = "src"
    /\ Len(outcome.tree.children[1].children) = 2
    /\ outcome.tree.children[2].name = "README.MD"
    /\ "content" \in DOMAIN outcome.tree.children[2]

\* the same for a local build
C20_LocalWitness ==
    /\ lpc = "resolved"
    /\ options = {}
    /\ Len(lOutcome.tree.children) = 2
    /\ Len(lOutcome.tree.children[1].children) = 2

\* a remote build of the wide repository has returned the directory whose
\* listing was split into two batches, with every entry
C20_WideWitness ==
    /\ pc = "resolved"
    /\ Len(outcome.tree.children) = 2
    /\ Len(outcome.tree.children[1].children) = WideLeft

\* C21: the step in which a build that the user has cancelled settles changes
\* neither the status nor the displayed tree.
C21_CancelledBuildSilent ==
    [][(cancelled /\ BuildInFlight /\ ~BuildInFlight')
        => (processingStatus' = processingStatus /\ appData' = appData)]_vars

\* C22: once the token of a build has been signalled, by the external signal
\* or by the overall watchdog, whatever the build rejects with is the
\* 'Operation cancelled by user' error.
C22_CancelledWins ==
    (pc = "rejected" /\ aborted) => outcome = Rejected(NewError(MsgCancelled))

\* a listing call had failed and been started again when the token was
\* signalled; the build has rejected
C22_Witness ==
    /\ pc = "rejected"
    /\ aborted
    /\ ~entrySignal
    /\ \E key \in FrameKeys : calls[key] > 1
    /\ outcome = Rejected(NewError(MsgCancelled))

\* the errors parseLocalPath classifies a failure as
PermissionDenied == NewError(MsgAccessDenied)
LocalCancelled == {NewError(MsgPickerCancelled), NewError(MsgCancelled)}

\* C23: a local build never rejects with the raw error of a refused access (a
\* refusal surfaces as 'Access denied. ...'), and once its token has been
\* signalled it returns no tree and rejects with a cancellation error.
C23_RefusalIsClassified ==
    lpc = "rejected" => lOutcome.error \notin HandleFailures
C23_CancelReturnsNoTree ==
    lAborted =>
        /\ lpc # "resolved"
        /\ (lpc = "rejected" /\ lops # {}) => lOutcome.error \in LocalCancelled
C23_LocalClassification == C23_RefusalIsClassified /\ C23_CancelReturnsNoTree

\* C24: a build of a repository whose reported size is over 100 MB has
\* rejected as too large without starting a listing or content call, and a
\* build of a repository of at most 100 MB is not rejected as too large.
C24_SizeLimit ==
    repoSize.kind = "data" =>
        IF repoSize.size > 100 * 1024
          THEN RejectedWith(MsgTooLarge) /\ NoCalls(calls)
          ELSE ~RejectedWith(MsgTooLarge)

\* levels below the traversal root: of a directory of the source, and of the
\* deepest node of a tree
Depth(path) == Cardinality(Ancestors(path))
RECURSIVE Height(_)
Height(node) ==
    IF "children" \in DOMAIN node /\ node.children # <<>>
      THEN LET hs == {Height(node.children[k]) : k \in 1..Len(node.children)}
           IN 1 + CHOOSE h \in hs : \A g \in hs : g <= h
      ELSE 0

\* C25: no build lists a directory that lies more than options.maxDepth levels
\* below the traversal root, and no returned tree holds a node that deep.
C25_DepthLimit ==
    /\ \A key \in FrameKeys : calls[key] > 0 => Depth(key[2]) <= maxDepth
    /\ \A op \in lops : op[1] = "values" => Depth(op[2]) <= maxDepth
    /\ pc = "resolved" => Height(outcome.tree) <= maxDepth
    /\ lpc = "resolved" => Height(lOutcome.tree) <= maxDepth

\* the k-th invocation ends the call: it answers, it runs into the per-call
\* timeout, it fails with a terminal failure, or it is the last of the budget
Decisive(k) ==
    \/ wrScript[k] \in {Answers, Hangs}
    \/ wrScript[k].kind = "fail" /\ IsTerminal(wrScript[k].err)
    \/ k = MaxAttempts

\* the wrapped operation is invoked at most three times
C26_AtMostThreeAttempts == wrCalls <= MaxAttempts

\* C26: withRetry invokes the wrapped operation at most 3 times, invokes it
\* no more once an invocation has answered, failed terminally or used up the
\* budget, and has settled only after such an invocation.
C26_RetryBound ==
    /\ C26_AtMostThreeAttempts
    /\ ~wrAborted =>
          /\ \A j \in 1..(wrCalls - 1) : ~Decisive(j)
          /\ wrState = "backoff" => ~Decisive(wrCalls)
          /\ WrSettled => Decisive(wrCalls)

\* the same for the scripts in which no invocation fails with a 404 or with a
\* 403 that is not a rate limit, the failures C10 is about
C26_BoundButForRetriedTerminal ==
    (\A k \in 1..MaxAttempts :
        wrScript[k].kind = "fail" => wrScript[k].err \notin {ErrNotFound, ErrForbidden})
    => C26_RetryBound

\* C27: the k-th retry is announced to onRetry with k, then waited for
\* RETRY_DELAY * 2^(k-1) milliseconds, and the wrapped operation is invoked
\* for the k-th retry only once that delay has elapsed.
C27_BackoffSchedule ==
    /\ \A k \in 1..Len(wrOnRetry) : wrOnRetry[k] = k
    /\ \A k \in 1..Len(wrWaited) : wrWaited[k] = RETRY_DELAY * (2 ^ (k - 1))
    /\ Len(wrWaited) <= Len(wrOnRetry)
    /\ wrState = "backoff" <=> Len(wrOnRetry) = Len(wrWaited) + 1
    /\ wrCalls <= Len(wrWaited) + 1

\* the second retry is under way: announced with 1 and 2, after 1000 ms and
\* 2000 ms
C27_Witness ==
    /\ wrState = "inflight"
    /\ wrCalls = MAX_RETRIES + 1
    /\ wrOnRetry = <<1, 2>>
    /\ wrWaited = <<1000, 2000>>

\* C28: withRetry entered, for the first attempt or for a retry, with the
\* token already signalled rejects with 'Operation cancelled by user' and
\* does not invoke the wrapped operation; fetchGitHubContents entered with a
\* signal that has already fired rejects with the same error, having started
\* no remote call and not having armed the overall watchdog.
C28_AlreadyCancelled ==
    [][/\ (wrAborted /\ wrState \in {"idle", "backoff"} /\ wrState' # wrState)
           => /\ wrState' = "rejected"
              /\ wrResult' = NewError(MsgCancelled)
              /\ wrCalls' = wrCalls
       /\ (pc = "idle" /\ pc' # "idle" /\ entrySignal')
           => /\ pc' = "rejected"
              /\ outcome' = Rejected(NewError(MsgCancelled))
              /\ \A site \in Sites : calls'[site] = 0
              /\ watchdog' = "unset"]_vars

\* both have happened: withRetry was entered with the token signalled and
\* rejected without an invocation, and so did fetchGitHubContents
C28_Witness ==
    /\ wrAborted
    /\ wrState = "rejected"
    /\ wrCalls = 0
    /\ entrySignal
    /\ pc = "rejected"
    /\ watchdog = "unset"

\* a retry was due when the token was signalled: no further invocation
C28_RetryWitness ==
    /\ wrAborted
    /\ wrState = "rejected"
    /\ wrCalls = 1
    /\ wrWaited = <<RETRY_DELAY>>

\* the group (from 0) that the loop over a list puts its k-th item in
Group(k, size) == (k - 1) \div size
\* what shows that the processor of an item has started: the nested
\* countFiles / fetchDirectory of a directory, the content call of a file
StartedRemote(pass, entry) ==
    IF entry.type = "dir" THEN fr[<<pass, entry.path>>].st # "none"
    ELSE pass = "fetch" /\ calls[<<"content", entry.path>>] > 0
SettledRemote(pass, entry) ==
    entry.type = "dir" => fr[<<pass, entry.path>>].st \in {"ok", "err"}
\* the operation on the handle of a local entry
LocalOp(entry) ==
    IF entry.type = "dir" THEN <<"getDirectoryHandle", entry.path>>
    ELSE <<"getFileHandle", entry.path>>

\* no item of a later group has started while an item of an earlier group of
\* the same list is unsettled, and a group holds at most BATCH_SIZE items
RemoteBarrier ==
    \A key \in FrameKeys :
        LET entries == Listing(key[2])
        IN /\ Len(fr[key].items) <= BATCH_SIZE
           /\ fr[key].i % BATCH_SIZE = 0
           /\ \A k, h \in 1..Len(entries) :
                  (Group(h, BATCH_SIZE) < Group(k, BATCH_SIZE)
                   /\ StartedRemote(key[1], entries[k]))
                  => SettledRemote(key[1], entries[h])

\* a group of processBatch starts only when the listing has answered or the
\* pause after the group before has elapsed, and never once the token is
\* signalled; the loop moves on by BATCH_SIZE
RemoteGroupStart ==
    \A key \in FrameKeys :
        LET entries == Listing(key[2])
        IN /\ \A k \in 1..Len(entries) :
                  (~StartedRemote(key[1], entries[k]) /\ StartedRemote(key[1], entries[k])')
                  => /\ ~aborted
                     /\ fr[key].st \in {"call", "pause"}
                     /\ fr[key].items = <<>>
                     /\ fr'[key].i = BATCH_SIZE * Group(k, BATCH_SIZE)
           /\ (fr[key].st = "pause" /\ fr'[key].st \in {"batch", "pause"}
               /\ fr'[key] # fr[key])
              => (~aborted /\ fr'[key].i = fr[key].i + BATCH_SIZE)

\* the same for the loop of processDirectory, in groups of LOCAL_BATCH_SIZE
LocalGroupStart ==
    \A p \in DirPaths :
        LET entries == Listing(p)
        IN /\ Len(lfr[p].items) <= LOCAL_BATCH_SIZE
           /\ lfr[p].i % LOCAL_BATCH_SIZE = 0
           /\ \A k \in 1..Len(entries) :
                  (LocalOp(entries[k]) \notin lops /\ LocalOp(entries[k]) \in lops')
                  => /\ ~lAborted
                     /\ lfr[p].st \in {"listing", "pause"}
                     /\ lfr[p].items = <<>>
                     /\ lfr'[p].i = LOCAL_BATCH_SIZE * Group(k, LOCAL_BATCH_SIZE)
           /\ (lfr[p].st = "pause" /\ lfr'[p].st \in {"batch", "pause"}
               /\ lfr'[p] # lfr[p])
              => (~lAborted /\ lfr'[p].i = lfr[p].i + LOCAL_BATCH_SIZE)

\* C29: within one processBatch call and one processDirectory call the items
\* are taken in consecutive groups of at most the batch size (10 remote, 20
\* local); no item of a group is started before every item of the group
\* before has settled, and no group is started once the token is signalled.
C29_GroupBarrier ==
    [][RemoteBarrier' /\ RemoteGroupStart /\ LocalGroupStart]_vars

\* the second group of the listing of d1 has started in the fetch pass
C29_Witness ==
    /\ source = "wide"
    /\ fr[<<"fetch", WideSub("d1", BATCH_SIZE + 1).path>>].st = "call"
    /\ fr[<<"fetch", "d1">>].i = BATCH_SIZE

\* the second group of the long directory has started
C29_LocalWitness ==
    /\ source = "long"
    /\ lfr[Root].i = LOCAL_BATCH_SIZE
    /\ lfr[Root].st = "batch"
    /\ LocalOp(Listing(Root)[LOCAL_BATCH_SIZE + 1]) \in lops

\* the token was signalled while the first group was in flight: the listing
\* of d1 is given up before its second group
C29_RefusedWitness ==
    /\ source = "wide"
    /\ aborted
    /\ fr[<<"count", "d1">>].st = "err"
    /\ fr[<<"count", "d1">>].val = NewError(MsgCancelledCount)
    /\ fr[<<"count", WideSub("d1", 1).path>>].st = "ok"
    /\ fr[<<"count", WideSub("d1", BATCH_SIZE + 1).path>>].st = "none"

\* the directory entries of a listing whose processor has thrown: the nested
\* fetchDirectory rejected
FailedEntry(pass, entry) ==
    entry.type = "dir" /\ fr[<<pass, entry.path>>].st = "err"
\* the entries of a listing that the fetch processor returns a node for
Kept(entry) ==
    /\ ~Excluded(options, entry.name)
    /\ ~FailedEntry("fetch", entry)
PathsOf(nodes) == [j \in 1..Len(nodes) |-> nodes[j].path]

\* what fetchDirectory returned holds, in listing order, a node for every
\* entry of every group but the excluded and the failed ones, and the node
\* of a directory holds what its own fetchDirectory returned
OnlyFailedMissing ==
    \A d \in DirPaths :
        LET f == fr[<<"fetch", d>>]
            kept == SelectSeq(Listing(d), Kept)
        IN f.st = "ok"
           => /\ PathsOf(f.val.children) = PathsOf(kept)
              /\ \A j \in 1..Len(kept) :
                    kept[j].type = "dir"
                    => /\ fr[<<"fetch", kept[j].path>>].st = "ok"
                       /\ f.val.children[j].children
                            = fr[<<"fetch", kept[j].path>>].val.children

\* in the step in which the processor of an item throws, the processBatch
\* call the item belongs to does not reject: it keeps the results it has
\* and goes on waiting for the rest of the group, the item settled with
\* null, or moves on to its pause
ThrowIsCaught ==
    \A key \in FrameKeys :
        (key[2] # Root /\ fr[key].st # "err" /\ fr'[key].st = "err")
        => LET pk == <<key[1], ParentPath(key[2])>>
               before == fr[pk]
               after == fr'[pk]
           IN /\ before.st = "batch"
              /\ after.st \in {"batch", "pause"}
              /\ after.i = before.i
              /\ Len(after.results) >= Len(before.results)
              /\ SubSeq(after.results, 1, Len(before.results)) = before.results
              /\ after.st = "batch"
                 => /\ after.results = before.results
                    /\ \A j \in 1..Len(after.items) :
                          Listing(pk[2])[after.i + j].path = key[2]
                          => (after.items[j].st = "done" /\ after.items[j].res.null)

\* the entries the loop of processBatch has taken up to its current group
Taken(key) ==
    LET entries == Listing(key[2])
        hi == IF fr[key].i + BATCH_SIZE < Len(entries)
                THEN fr[key].i + BATCH_SIZE ELSE Len(entries)
    IN SubSeq(entries, 1, hi)
\* what the count processor returned for an entry
CountOf(entry) ==
    IF entry.type = "file" THEN 1
    ELSE IF entry.type = "dir" /\ ~Excluded(options, entry.name)
              /\ fr[<<"count", entry.path>>].st = "ok"
      THEN fr[<<"count", entry.path>>].val
    ELSE 0
\* the processor of the entry returned a value: it did not throw and, in
\* the fetch pass, the entry is not excluded
ReturnsValue(pass, entry) ==
    IF pass = "count" THEN ~FailedEntry("count", entry) ELSE Kept(entry)
SomeThrown(key) ==
    \E k \in 1..Len(Taken(key)) : FailedEntry(key[1], Taken(key)[k])

\* between two groups, the list processBatch has built holds, in listing
\* order, what the processors of the groups so far returned, but for the
\* values that filter(Boolean) drops: null and 0
TruthyPushed ==
    \A key \in FrameKeys :
        LET Truthy(entry) ==
                ReturnsValue(key[1], entry) /\ (key[1] = "count" => CountOf(entry) # 0)
            kept == SelectSeq(Taken(key), Truthy)
        IN fr[key].st = "pause"
           => IF key[1] = "count"
                THEN fr[key].results = [j \in 1..Len(kept) |-> CountOf(kept[j])]
                ELSE PathsOf(fr[key].results) = PathsOf(kept)

\* C30: when the processor of one item of a batch throws, processBatch does
\* not reject; the list it returns holds the results of all other items of
\* that batch and of all other batches, and lacks only the failed item.
\* As stated: after a throw, once the last group has settled, the list
\* holds one element for every item whose processor returned a value.
C30_OnlyThrownMissing ==
    \A key \in FrameKeys :
        LET Returns(entry) == ReturnsValue(key[1], entry)
        IN (/\ fr[key].st = "pause"
            /\ fr[key].i + BATCH_SIZE >= Len(Listing(key[2]))
            /\ SomeThrown(key))
           => Len(fr[key].results) = Len(SelectSeq(Taken(key), Returns))

\* C30 (amended): a throw of a processor does not make processBatch reject,
\* and the list holds the results of all other items of every group except
\* those that filter(Boolean) drops, the null of an excluded entry and the
\* 0 of a directory without files; a signalled token still ends the loop
\* ahead of the next group.
C30_FailureIsolation ==
    [][ThrowIsCaught /\ OnlyFailedMissing' /\ TruthyPushed']_vars

\* the listing of one directory of the first group of d1 failed: d1 is
\* returned with every other directory of both groups
C30_Witness ==
    /\ source = "wide"
    /\ ~aborted
    /\ fr[<<"fetch", WideSub("d1", 1).path>>].st = "err"
    /\ fr[<<"fetch", "d1">>].st = "ok"
    /\ PathsOf(fr[<<"fetch", "d1">>].val.children)
         = [k \in 1..(WideLeft - 1) |-> WideSub("d1", k + 1).path]

\* the failure was in the second group
C30_LaterGroupWitness ==
    /\ source = "wide"
    /\ fr[<<"fetch", WideSub("d1", BATCH_SIZE + 1).path>>].st = "err"
    /\ fr[<<"fetch", WideSub("d1", 1).path>>].st = "ok"
    /\ fr[<<"fetch", "d1">>].st = "ok"
    /\ Len(fr[<<"fetch", "d1">>].val.children) = WideLeft - 1

\* the File nodes of a tree
FileNodes(tree) == {n \in NodesOf(tree) : n.type = "file"}

\* C31: for an unchanged source with no failing calls and an empty cache,
\* the total produced by countFiles(root) with exclusion set E equals the
\* number of File nodes in the tree produced by fetchDirectory(root) with
\* the same E, for every source structure.
C31_PassesAgree ==
    pc = "resolved" => totalFiles = Cardinality(FileNodes(outcome.tree))

\* C32: the processed counter is incremented exactly once for each file
\* entry that the fetch pass turns into a File node and not for directory
\* entries or excluded entries, so when a build completes, processed equals
\* the number of File nodes in the returned tree.
C32_ProcessedCountsFiles ==
    pc = "resolved" => processedFiles = Cardinality(FileNodes(outcome.tree))

\* name.includes('.') and the last segment of the name is one of the text
\* extensions
HasTextExtension(name) ==
    /\ Len(SplitDot(name)) > 1
    /\ ToLowerCase(Pop(SplitDot(name))) \in TextExtensions
ContentCalled(path) == calls[<<"content", path>>] > 0

\* the last segment of the name, lower-cased, is one of the text
\* extensions; for a name without a dot that segment is the whole name
LastSegmentIsText(name) == ToLowerCase(Pop(SplitDot(name))) \in TextExtensions

\* a directory that fetchDirectory has returned holds a File node for every
\* file entry that is not excluded, and the node has a content exactly when
\* the content call has answered
FailureKeepsNode ==
    \A d \in DirPaths :
        LET f == fr[<<"fetch", d>>]
        IN f.st = "ok"
           => \A k \in 1..Len(Listing(d)) :
                 LET entry == Listing(d)[k]
                 IN (entry.type = "file" /\ ~Excluded(options, entry.name))
                    => \E j \in 1..Len(f.val.children) :
                          LET node == f.val.children[j]
                          IN /\ node.path = entry.path
                             /\ node.type = "file"
                             /\ "children" \notin DOMAIN node
                             /\ "content" \in DOMAIN node
                                <=> CacheKey("content", entry.path) \in DOMAIN apiCache

C33_CancelledWitness ==
    /\ source = "mixed"
    /\ aborted
    /\ ContentCalled("a.md")
    /\ fr[<<"fetch", Root>>].st = "pause"
    /\ \E j \in 1..Len(fr[<<"fetch", Root>>].results) :
          /\ fr[<<"fetch", Root>>].results[j].path = "a.md"
          /\ "content" \notin DOMAIN fr[<<"fetch", Root>>].results[j]

\* the content call of README.MD failed for good and the root directory
\* was returned with its node
C33_FailureWitness ==
    /\ source = "small"
    /\ ~aborted
    /\ ContentCalled("README.MD")
    /\ CacheKey("content", "README.MD") \notin DOMAIN apiCache
    /\ pc = "resolved"
    /\ \E n \in FileNodes(outcome.tree) : n.path = "README.MD" /\ "content" \notin DOMAIN n


\* the trees that the builders have returned
ReturnedTrees ==
    (IF pc = "resolved" THEN {outcome.tree} ELSE {})
    \cup (IF lpc = "resolved" THEN {lOutcome.tree} ELSE {})
ReturnedNodes == UNION {NodesOf(tree) : tree \in ReturnedTrees}
Directories == {n \in ReturnedNodes : n.type = "directory"}
HasChildrenList(n) == "children" \in DOMAIN n /\ n.children \in Seq(ReturnedNodes)
FilesHaveNoChildren == \A n \in ReturnedNodes : n.type = "file" => "children" \notin DOMAIN n

C34_LocalWitness ==
    /\ lpc = "resolved"
    /\ \E n \in NodesOf(lOutcome.tree) \ {lOutcome.tree} : n.type = "directory"

\* the cache entries of the listings and contents that a tree is made of
EntriesOf(tree) ==
    {CacheKey("dir", n.path) : n \in {m \in NodesOf(tree) : m.type = "directory"}}
    \cup {CacheKey("content", n.path) :
             n \in {m \in NodesOf(tree) : m.type = "file" /\ "content" \in DOMAIN m}}

\* the age, at time t, of what the cache holds under the keys of a tree: an
\* entry is written when its data arrives from the source or later
EntryAges(tree, cache, t) ==
    {t - cache[key].timestamp : key \in EntriesOf(tree) \cap DOMAIN cache}

BuildReturns == pc # "resolved" /\ pc' = "resolved"

\* C35: a tree returned by a remote build never contains a directory
\* listing or a file content that was obtained from the source more than
\* 5 minutes (CACHE_TTL) before that build returned, for any sequence of
\* builds of the same repository.
C35_NoDataOutlivesTtl ==
    [][BuildReturns
       => \A age \in EntryAges(outcome'.tree, apiCache', now') : age <= CACHE_TTL]_vars

\* a press of the cancel button while a build is in flight signals the
\* token of that build
CancelSignalsBuild == (handleCancelProcessing /\ BuildInFlight) => aborted'

\* the signal a submission hands to the builder has not fired: the handler
\* reads it from the processingStatus of the render it was created in
SubmitsLiveSignal ==
    (\E E \in ExclusionSets : handleDirectorySubmit(E))
    => ~AlreadyAborted(processingStatus.abortController)

\* C36: the AbortSignal that handleDirectorySubmit hands to the builder of
\* build N belongs to the AbortController that handleCancelProcessing aborts
\* while build N is processing, so a cancel press signals build N's token;
\* and a cancel of build N never causes build N+1 to start with an
\* already-aborted signal.
C36_CancelReachesBuild == [][CancelSignalsBuild /\ SubmitsLiveSignal]_vars

\* the calls of the current build that never answered
TimedOutCalls == {e \in thrown : e.message = MsgGitHubTimedOut}

\* C37: every call of fetchGitHubContents eventually resolves or rejects,
\* whether each remote call succeeds, fails or never answers, because each
\* call is cut off by the per-call timeout, retries are bounded and the
\* overall watchdog signals the token; and once the build has settled the
\* watchdog timer is cleared and never fires.
C37_Termination ==
    /\ BuildInFlight ~> Settled
    /\ [](Settled => watchdog = "cleared")
    /\ [][Settled => (aborted' = aborted /\ Settled')]_<<pc, aborted>>

\* a listing call never answered and was cut off by its timer; the build
\* has rejected, no token signalled, and the watchdog is cleared
C37_Witness ==
    /\ pc = "rejected"
    /\ ~aborted
    /\ TimedOutCalls # {}
    /\ watchdog = "cleared"

\* the root listing failed on each of its MAX_RETRIES + 1 attempts and the
\* build has settled
C37_ExhaustedWitness ==
    /\ Settled
    /\ ~aborted
    /\ calls[<<"count", Root>>] = MAX_RETRIES + 1
    /\ fr[<<"count", Root>>].st \in {"ok", "err"}
    /\ watchdog = "cleared"

=========================================================================
